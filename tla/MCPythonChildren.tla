-------------------------- MODULE MCPythonChildren --------------------------
EXTENDS PythonChildren
=============================================================================
