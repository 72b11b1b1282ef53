--------------------------- MODULE MCSteeringQueue ---------------------------
\* Two of a draft, a reply on case data and a message of the job, or one of them
\* twice, are sent to two turns, of which the first works on case data.
EXTENDS SteeringQueue
=============================================================================
