SPECIFICATION Spec
PROPERTY FreshBeforeExecution
