------------------------------- MODULE MCMlfq -------------------------------
EXTENDS Mlfq

CONSTANTS t1, t2, t3

MCThreads == {t1, t2, t3}

\* The extremes of thread_set_nice's range.
MCNiceValues == {-20, 20}

=============================================================================
