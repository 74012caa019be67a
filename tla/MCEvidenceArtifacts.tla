------------------------ MODULE MCEvidenceArtifacts ------------------------
(* Small instances of EvidenceArtifacts.                                   *)
EXTENDS EvidenceArtifacts, TLC

CONSTANTS r1, r2, s1, s2

Page(t, m, i) == [text |-> t, media |-> m, image |-> i]
AllKinds == {Page(FALSE, FALSE, FALSE), Page(TRUE, FALSE, FALSE), Page(FALSE, FALSE, TRUE),
             Page(FALSE, TRUE, FALSE)}
Symmetric == Permutations(Runs) \cup Permutations(Submissions)
FramesAndAudio == {{}, {"frame", "audio"}}
=============================================================================
