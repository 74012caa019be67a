------------------------ MODULE MCSubmissionPipeline ------------------------
(* Small instances of SubmissionPipeline.                                  *)
EXTENDS SubmissionPipeline

CONSTANTS u1, u2, x, y, a, b, c

\* Each user sends a Reel of its own; with Media = {x, y} they are reposts.
Solo == {a, b}
SoloUser == [s \in Solo |-> IF s = b THEN u2 ELSE u1]
SoloUrl  == [s \in Solo |-> IF s = b THEN y ELSE x]

\* One user sends one Reel.
Alone == {a}
AloneUser == [s \in Alone |-> u1]
AloneUrl  == [s \in Alone |-> x]

\* Two users send the same Reel.
Shared == {a, b}
SharedUser == SoloUser
SharedUrl  == [s \in Shared |-> x]

\* Two users send the same Reel, one of them also a repost of it.
Repost == {a, b, c}
RepostUser == [s \in Repost |-> IF s = b THEN u2 ELSE u1]
RepostUrl  == [s \in Repost |-> IF s = c THEN y ELSE x]
=============================================================================
