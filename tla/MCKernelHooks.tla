---------------------------- MODULE MCKernelHooks ----------------------------
EXTENDS KernelHooks, TLC

\* Every level the kernel documents, one below and one above.
AllLevels == -1..4
=============================================================================
