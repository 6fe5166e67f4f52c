------------------------------ MODULE JsonExtract ------------------------------
(***************************************************************************)
(* extractJSON (internal/agent/planner) and its twin ExtractObject         *)
(* (internal/agent/jsonutil): how the JSON object is cut out of what a     *)
(* language model wrote.  A text is a sequence of tokens: the braces, the  *)
(* quote that begins or ends a JSON string, and everything else.           *)
(***************************************************************************)
EXTENDS Integers, Sequences, FiniteSets, FiniteSetsExt

Token == {"open", "close", "quote", "text"}

Nothing == <<>>

Weight(t) == IF t = "open" THEN 1 ELSE IF t = "close" THEN -1 ELSE 0

(* Mutant: the scan begins with the text, not with the first brace.        *)
FromTheTop(s) == 1

FirstOpen(s) == Min({i \in DOMAIN s : s[i] = "open"})

(* The counter depth of the scan, which does not know about strings: after *)
(* the first brace, up to position i.                                      *)
Depth(s) ==
  LET d[i \in 0 .. Len(s)] ==
        IF i < FirstOpen(s) THEN 0 ELSE d[i - 1] + Weight(s[i])
  IN d

(* Where the scan finds the counter back at zero.                          *)
Ends(s) == {i \in FirstOpen(s) .. Len(s) : s[i] = "close" /\ Depth(s)[i] = 0}

(* The stripping of a fence around the text removes no brace, and the scan *)
(* looks at nothing before the first one: it makes no difference here.     *)
Extract(s) ==
  IF "open" \notin {s[i] : i \in DOMAIN s} THEN Nothing
  ELSE IF Ends(s) = {} THEN Nothing
  ELSE SubSeq(s, FirstOpen(s), Min(Ends(s)))

-------------------------------------------------------------------------------
(* The reference: JSON as its grammar sees it, in which a brace inside a   *)
(* string is text.                                                         *)

Quotes(s, i) == Cardinality({j \in 1 .. i : s[j] = "quote"})

InString(s, i) == Quotes(s, i) % 2 = 1

Nesting(s) ==
  LET n[i \in 0 .. Len(s)] ==
        IF i = 0 THEN 0 ELSE n[i - 1] + (IF InString(s, i) THEN 0 ELSE Weight(s[i]))
  IN n

(* s is one object: opened by its first token, closed by its last.         *)
IsObject(s) ==
  /\ s # <<>> /\ s[1] = "open"
  /\ \A i \in DOMAIN s : Nesting(s)[i] = 0 <=> i = Len(s)
  /\ ~ InString(s, Len(s))

(* No string of the object contains a brace.                               *)
PlainStrings(s) == \A i \in DOMAIN s : InString(s, i) => Weight(s[i]) = 0
===============================================================================
