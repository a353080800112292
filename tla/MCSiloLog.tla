------------------------------ MODULE MCSiloLog ------------------------------
EXTENDS SiloLog

\* LoggerAffinity: contiguous blocks of workers.
MCLoggerOf == [w \in Workers |-> (w * NL) \div NW]
=============================================================================
