----------------------------- MODULE MCSessions -----------------------------
(* Small deployments for TLC. *)
EXTENDS Sessions

CONSTANTS ann, bob, s1, s2

OneUser   == [i \in Ids |-> IF i = 1 THEN ann ELSE NoMail]
NoUsers   == [i \in Ids |-> NoMail]
OneMail   == {ann}
TwoMails  == {ann, bob}
OneSlot   == {s1}
TwoSlots  == {s1, s2}
=============================================================================
