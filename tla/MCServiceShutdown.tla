------------------------- MODULE MCServiceShutdown -------------------------
EXTENDS ServiceShutdown

=============================================================================
