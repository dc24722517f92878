----------------------------- MODULE RoomNames -----------------------------
(***************************************************************************)
(* internal/store/store.go: the name of a LiveKit room, made from a title  *)
(* or a name as it was typed.  Texts and names are sequences of characters.*)
(***************************************************************************)
EXTENDS Integers, SequencesExt

CONSTANTS
  Folded,      \* character -> [a-z0-9] in lower case, or "-" for all others
  Ids,         \* what NewID may return, 20 characters in the code
  ShortIds,    \* what shortID may return, at most SuffixLen characters
  SuffixLen,   \* 6 in the code
  MaxRoomLen   \* 48 in the code

RoomPrefix == <<"r", "-">>   \* "room-"

Chars == DOMAIN Folded
Alnum == {c \in Chars : Folded[c] = c /\ c # "-"}   \* a-z and 0-9
Words == Seq(Alnum) \ {<< >>}

ASSUME NamesAssumption ==
  /\ SuffixLen \in Nat /\ MaxRoomLen \in Nat /\ SuffixLen + 1 < MaxRoomLen
  /\ \A c \in Chars : Folded[c] \in Alnum \cup {"-"}
  /\ "-" \in Chars /\ Folded["-"] = "-" /\ "r" \in Alnum
  /\ \A s \in ShortIds : s \in Words /\ Len(s) <= SuffixLen
  /\ \A id \in Ids : id \in Words /\ Len(RoomPrefix) + Len(id) + SuffixLen + 1 <= MaxRoomLen

\* Every run of other characters becomes one dash, none at the beginning.
Written(name, c) ==
  IF c = "-" /\ (name = << >> \/ Last(name) = "-") THEN name ELSE Append(name, c)
Dashed(text) ==
  LET upTo[n \in 0..Len(text)] ==
        IF n = 0 THEN << >> ELSE Written(upTo[n - 1], Folded[text[n]])
  IN  upTo[Len(text)]

\* strings.Trim: there is at most one dash to remove, at the end.
Trimmed(name) == IF name # << >> /\ Last(name) = "-" THEN Front(name) ELSE name
CutOnly(name, n) == IF Len(name) > n THEN SubSeq(name, 1, n) ELSE name  \* mutant
Cut(name, n)  == IF Len(name) > n THEN Trimmed(SubSeq(name, 1, n)) ELSE name

\* The possible results: more than one only for a text without usable characters.
SlugRoom(text) ==
  LET slug == Cut(Trimmed(Dashed(text)), MaxRoomLen)
  IN  IF slug # << >> THEN {slug} ELSE {RoomPrefix \o id : id \in Ids}

SlugRoomUnique(title) ==
  {(IF slug = << >> THEN RoomPrefix ELSE Append(slug, "-")) \o suffix :
     slug \in {Cut(s, MaxRoomLen - SuffixLen - 1) : s \in SlugRoom(title)},
     suffix \in ShortIds}
=============================================================================
