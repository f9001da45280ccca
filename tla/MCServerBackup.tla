-------------------------- MODULE MCServerBackup --------------------------
(* A small instance of ServerBackup for TLC: from the guild as it is found, *)
(* one edit is a batch of major changes, the other is a small change.       *)
EXTENDS ServerBackup

MCFounded == [outline |-> "o", perms |-> "p", trim |-> "t"]
MCStructures == {MCFounded, [MCFounded EXCEPT !.perms = "q"], [MCFounded EXCEPT !.trim = "u"]}
=============================================================================
