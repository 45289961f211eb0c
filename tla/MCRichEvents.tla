---------------------------- MODULE MCRichEvents ----------------------------
(* Instances of RichEvents for TLC.                                        *)
EXTENDS RichEvents, TLC

CONSTANTS First, Second   \* chunks of text

\* No text at all, a text, and one that extends it.
ShortText == {<< >>, <<First>>, <<First, Second>>}

=============================================================================
