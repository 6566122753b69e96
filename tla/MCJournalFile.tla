--------------------------- MODULE MCJournalFile ---------------------------
(* Three actions: one that is redelivered, one that is delivered once and one *)
(* whose intent makes the journal compact what the others left.               *)
EXTENDS JournalFile

MCMaxClaims == <<2, 1, 0>>
=============================================================================
