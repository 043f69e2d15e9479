----------------------------- MODULE MCDumpControl -----------------------------
EXTENDS DumpControl

MCKeySets == {{}, {"a"}, {"x"}, {"y"}}
=============================================================================
