SPECIFICATION FairSpec
PROPERTY ExecutionResumes
