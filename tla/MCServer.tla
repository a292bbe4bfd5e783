------------------------------ MODULE MCServer ------------------------------
EXTENDS Server

ThreeSources == <<"s1", "s2", "s3">>

\* Between them every task; mode "all" with Kafka has all of them at once.  Without
\* Kafka two goroutines collect a batch of two or of three.  With it, one request
\* a round is all that a source that is never settled can take from the others.
Local == [mode : {"all"}, kafka : {FALSE}, batchSize : {2, 3}]
Split == [mode : {"api", "scheduler", "worker"}, kafka : {TRUE}, batchSize : {1}]
LocalAndSplit == Local \cup Split
=============================================================================
