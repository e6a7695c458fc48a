------------------------ MODULE MCSandboxLifecycle ------------------------
EXTENDS SandboxLifecycle
=============================================================================
