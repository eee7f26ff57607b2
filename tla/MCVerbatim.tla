----------------------------- MODULE MCVerbatim -----------------------------
(***************************************************************************)
(* An instance of Verbatim: the escape character, three of the nine pairs  *)
(* of a character and its code, a brace and its code, the other brace, and *)
(* the characters that mean something to XML and to an attribute.          *)
(***************************************************************************)
EXTENDS Verbatim

SomeChars == {"!", "~", "t", "\\", "/", "%", "{", "}", "[", "&", "="}
FewChars == {"!", "~", "t", "\\", "/", "a"}

=============================================================================
