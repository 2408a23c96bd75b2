SPECIFICATION Spec
CONSTANTS Dirs={a,b,c} DefaultDir=a Unusable={c} NoDir=none Settings=etc MaxEdits=1
INVARIANT RelocationCanBeRetried
CHECK_DEADLOCK FALSE
