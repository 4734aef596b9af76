-------------------------- MODULE MCJournalConsumers --------------------------
(***************************************************************************)
(* JournalConsumers with a sentence of the code that its behaviour does    *)
(* not bear out.                                                           *)
(***************************************************************************)
EXTENDS JournalConsumers, TLC

\* seat-journal-consumers.ts says of a provider that threw that the cursor is left
\* "where it was, so the event comes back on the next replay".
ThrownEventsComeBack == \A p \in Throwing : NotSkipped(p)
=============================================================================
