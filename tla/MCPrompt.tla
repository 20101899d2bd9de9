------------------------------- MODULE MCPrompt -------------------------------
(***************************************************************************)
(* TLC instance of Prompt, its limits about a ninth of the program's, with *)
(* messages that are short, that fill the room but for a rest too small to *)
(* use, that nearly fill the prompt, and that are longer than it.          *)
(***************************************************************************)
EXTENDS Prompt
=============================================================================
