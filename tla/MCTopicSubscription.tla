------------------------ MODULE MCTopicSubscription -------------------------
(* Small instances of TopicSubscription for TLC. *)
EXTENDS TopicSubscription

CONSTANTS t1, t2

\* A message of two chunks with another one in between; two chunked
\* messages that interleave.
OneChunked == <<t1, Single, t1>>
Interleaved == <<t1, t2, Single, t1, t2>>
=============================================================================
