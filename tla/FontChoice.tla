----------------------------- MODULE FontChoice -----------------------------
(***************************************************************************)
(* What the font files that config.xml names mean together: of two         *)
(* declarations of one name, the one in the file that is named first is in *)
(* force, and in one file the last one.                                    *)
(*                                                                         *)
(* A configuration is a sequence of files: whether the file is there,      *)
(* whether it may be missing, and the declarations it holds.               *)
(***************************************************************************)
EXTENDS Integers, Sequences

CONSTANT Neutral   (* what LxirNeutralFont makes of each character          *)

Usable(config) == \A i \in DOMAIN config : config[i].present \/ config[i].optional

At(config, p) == config[p[1]].content[p[2]]
Places(config, kind) ==
  {p \in {<<i, j>> : i \in DOMAIN config,
                     j \in UNION {DOMAIN config[k].content : k \in DOMAIN config}} :
     /\ config[p[1]].present /\ p[2] \in DOMAIN config[p[1]].content
     /\ At(config, p).kind = kind}
Overrides(p, q) == p[1] < q[1] \/ (p[1] = q[1] /\ p[2] > q[2])
InForce(config, places) ==
  At(config, CHOOSE p \in places : \A q \in places \ {p} : Overrides(p, q))

Ligatures(config, text) ==
  {p \in Places(config, "ligature") : At(config, p).src = text}
Text(config, value) ==
  IF Ligatures(config, value) = {} THEN value
  ELSE InForce(config, Ligatures(config, value)).dst

Encodings(config, name) ==
  {p \in Places(config, "encoding") :
     At(config, p).name = name /\ At(config, p).values # <<>>}
Encoding(config, name) ==
  LET values == InForce(config, Encodings(config, name)).values
  IN  [c \in 0 .. Len(values) - 1 |-> Text(config, values[c + 1])]

(* A declaration of a font with an encoding that nobody declares is void.  *)
Declarations(config, kind, name) ==
  {p \in Places(config, kind) :
     At(config, p).name = name /\ Encodings(config, At(config, p).encoding) # {}}
FontMapOf(config, name) ==
  IF Declarations(config, "font", name) = {} THEN Neutral
  ELSE Encoding(config, InForce(config, Declarations(config, "font", name)).encoding)

Accents(config, base, accent) ==
  {p \in Places(config, "accent") :
     At(config, p).base = base /\ At(config, p).accent = accent}

=============================================================================
