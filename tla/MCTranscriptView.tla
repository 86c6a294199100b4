-------------------------- MODULE MCTranscriptView --------------------------
(***************************************************************************)
(* TranscriptView with named sessions.                                     *)
(***************************************************************************)
EXTENDS TranscriptView

CONSTANTS a, b    \* session ids

TwoSessions == {a, b}
OneTalks == {a}
=============================================================================
