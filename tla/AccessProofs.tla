---------------------------- MODULE AccessProofs ----------------------------
(* Theorems about Access for any users, invitations, texts and PATCHes.      *)
EXTENDS Access, SequenceTheorems, WellFoundedInduction, TLAPS

-----------------------------------------------------------------------------
(* The policy: facts about any user and any meeting. *)

\* Any nonempty set of numbers has a least one: the first invitation exists.
LEMMA FirstOf ==
  ASSUME NEW S, S \subseteq Nat, S # {}
  PROVE  \E m \in S : \A k \in S : m <= k
<1> DEFINE less == {p \in Nat \X Nat : p[1] < p[2]}
<1>1. IsWellFoundedOn(less, Nat)
  BY NatLessThanWellFounded DEF OpToRel
<1>2. \E m \in S : \A k \in S : <<k, m>> \notin less
  <2> HIDE DEF less
  <2> QED BY <1>1, WFMin
<1>3. \A m, k \in S : m \in Nat /\ k \in Nat /\ (<<k, m>> \notin less => m <= k)
  OBVIOUS
<1> QED BY <1>2, <1>3

\* An invitation of u decides his role if there is one.
LEMMA InvitedRoleIsGiven ==
  ASSUME NEW m, NEW u, DOMAIN m.invitees \subseteq Nat, Invitations(m, u) # {}
  PROVE  \E i \in Invitations(m, u) :
           InvitedRole(m, u) = IF m.invitees[i].role \in Roles THEN m.invitees[i].role
                               ELSE "viewer"
<1> DEFINE first == CHOOSE i \in Invitations(m, u) : \A j \in Invitations(m, u) : i <= j
<1>1. Invitations(m, u) \subseteq Nat BY DEF Invitations
<1>2. \E i \in Invitations(m, u) : \A j \in Invitations(m, u) : i <= j
  BY <1>1, FirstOf
<1>3. first \in Invitations(m, u) BY <1>2
<1> QED BY <1>3 DEF InvitedRole

\* Whoever joins as host may manage the meeting.
LEMMA HostsManage ==
  ASSUME NEW m, NEW u, DOMAIN m.invitees \subseteq Nat, RoleFor(m, u) = "host"
  PROVE  CanManage(m, u)
<1>1. CASE IsHost(m, u) \/ IsDirector(u) BY <1>1 DEF CanManage
<1>2. CASE ~IsHost(m, u) /\ Invitations(m, u) # {}
  <2>1. PICK i \in Invitations(m, u) :
          InvitedRole(m, u) = IF m.invitees[i].role \in Roles THEN m.invitees[i].role
                              ELSE "viewer"
    BY <1>2, InvitedRoleIsGiven
  <2>2. m.invitees[i].role = "host" BY <1>2, <2>1 DEF RoleFor
  <2> QED BY <2>2 DEF Invitations, Invited, CanManage
<1>3. CASE ~IsHost(m, u) /\ Invitations(m, u) = {} /\ ~IsDirector(u)
  BY <1>3 DEF RoleFor, Audience
<1> QED BY <1>1, <1>2, <1>3

\* Who may manage the meeting, and not by two usernames both empty, may enter it.
LEMMA ManagersEnter ==
  ASSUME NEW m, NEW u, CanManage(m, u), ~BlankNamesMatch(m, u)
  PROVE  MayEnter(m, u)
BY DEF CanManage, MayEnter, Invitations, Invited, BlankNamesMatch

LEMMA ListShowsWhatOpens ==
  ASSUME NEW m, NEW u
  PROVE  Visible(m, u) <=> MayEnter(m, u)
BY DEF Visible, MayEnter

\* Outside meetings a token rules its room only in the hands of a director.
LEMMA FreeAdmins ==
  ASSUME NEW room, NEW u, NEW role, FreeGrant(room, u, role).admin
  PROVE  IsDirector(u)
BY DEF FreeGrant, FreeRole

\* Wrapping around never makes a duration longer.
LEMMA WrapsDown ==
  ASSUME NEW x \in Nat
  PROVE  Wrapped(x) \in Int /\ Wrapped(x) <= x
<1> DEFINE sum == x + Half
           word == 2 * Half
<1>1. \A w \in Nat, k \in Nat \ {0} : w % k \in 0..(k - 1) /\ w % k <= w
  OBVIOUS
<1>2. sum \in Nat /\ word \in Nat \ {0} /\ Half \in Nat
  BY LifeAssumption DEF LifeAssumption
<1>3. Wrapped(x) = (sum % word) - Half BY DEF Wrapped
<1>4. sum = x + Half OBVIOUS
<1> HIDE DEF sum, word
<1>5. sum % word \in Nat /\ sum % word <= sum BY <1>1, <1>2
<1> QED BY <1>2, <1>3, <1>4, <1>5

-----------------------------------------------------------------------------
(* Room names.  What a loop over the characters of a text computes is proved *)
(* by induction over the number of characters read.  The library's induction *)
(* theorems take a predicate, which the provers cannot instantiate; here the *)
(* numbers for which it holds are a set.                                     *)

LEMMA Induction ==
  ASSUME NEW H, H \subseteq Nat, 0 \in H, \A n \in H : n + 1 \in H
  PROVE  H = Nat
<1> SUFFICES ASSUME Nat \ H # {} PROVE FALSE
  OBVIOUS
<1>1. PICK n \in Nat \ H : \A m \in Nat \ H : n <= m
  BY FirstOf
<1>2. n # 0 /\ n - 1 \in Nat /\ n - 1 \notin Nat \ H
  BY <1>1
<1> QED BY <1>1, <1>2

\* The names that Dashed has written after each of the first n characters.
Writing(g, text, n) ==
  g = [k \in 0..n |-> IF k = 0 THEN << >> ELSE Written(g[k - 1], Folded[text[k]])]

LEMMA SomeWriting ==
  ASSUME NEW text, NEW n \in Nat
  PROVE  \E g : Writing(g, text, n)
<1> DEFINE H == {k \in Nat : \E g : Writing(g, text, k)}
<1>1. 0 \in H
  <2> DEFINE g == [k \in 0..0 |-> << >>]
  <2>1. Writing(g, text, 0) BY DEF Writing
  <2> QED BY <2>1
<1>2. ASSUME NEW k \in H PROVE k + 1 \in H
  <2>1. PICK g : Writing(g, text, k) OBVIOUS
  <2> DEFINE h == [i \in 0..(k + 1) |->
                     IF i = k + 1 THEN Written(g[k], Folded[text[k + 1]]) ELSE g[i]]
  <2>2. \A i \in 0..k : h[i] = g[i] OBVIOUS
  <2>3. ASSUME NEW i \in 0..(k + 1)
        PROVE  h[i] = IF i = 0 THEN << >> ELSE Written(h[i - 1], Folded[text[i]])
    <3>1. CASE i = 0 BY <2>1, <3>1 DEF Writing
    <3>2. CASE i \in 1..k
      <4>1. g[i] = Written(g[i - 1], Folded[text[i]]) BY <2>1, <3>2 DEF Writing
      <4> QED BY <2>2, <3>2, <4>1
    <3>3. CASE i = k + 1 BY <2>2, <3>3
    <3> QED BY <3>1, <3>2, <3>3
  <2>4. h = [i \in 0..(k + 1) |-> h[i]] OBVIOUS
  <2> HIDE DEF h
  <2>5. Writing(h, text, k + 1) BY <2>3, <2>4 DEF Writing
  <2> QED BY <2>5
<1>3. H = Nat
  <2> HIDE DEF H
  <2>1. H \subseteq Nat BY DEF H
  <2> QED BY <1>1, <1>2, <2>1, Induction
<1> QED BY <1>3

LEMMA DashedIsWritten ==
  ASSUME NEW text, Len(text) \in Nat
  PROVE  \E g : Writing(g, text, Len(text)) /\ Dashed(text) = g[Len(text)]
<1>1. \E g : Writing(g, text, Len(text)) BY SomeWriting
<1> DEFINE g == CHOOSE g : Writing(g, text, Len(text))
<1>2. Writing(g, text, Len(text)) BY <1>1
<1>3. Dashed(text) = g[Len(text)] BY DEF Dashed, Writing
<1> QED BY <1>2, <1>3

\* No dash at the beginning and no two in a row.
NameChars == Alnum \cup {"-"}
Spaced(name) ==
  /\ name \in Seq(NameChars)
  /\ name # << >> => name[1] # "-"
  /\ \A k \in 1..(Len(name) - 1) : name[k] # "-" \/ name[k + 1] # "-"

\* And none at the end: what SlugRoom leaves as it is.
Trim(name)  == name # << >> => Last(name) # "-"
Clean(name) == Spaced(name) /\ Trim(name)

LEMMA WrittenSpaced ==
  ASSUME NEW name, Spaced(name), NEW c \in NameChars
  PROVE  Spaced(Written(name, c))
<1>1. name \in Seq(NameChars) /\ Len(name) \in Nat BY DEF Spaced
<1>2. CASE Written(name, c) = name BY <1>2
<1>3. CASE Written(name, c) # name
  <2> DEFINE new == Append(name, c)
  <2>1. Written(name, c) = new /\ (c # "-" \/ (name # << >> /\ Last(name) # "-"))
    BY <1>3 DEF Written
  <2>2. /\ new \in Seq(NameChars) /\ Len(new) = Len(name) + 1 /\ new[Len(name) + 1] = c
        /\ \A i \in 1..Len(name) : new[i] = name[i]
    BY <1>1, AppendProperties
  <2> HIDE DEF new
  <2>3. name = << >> <=> Len(name) = 0 BY <1>1, EmptySeq
  <2>4. new[1] # "-"
    <3>1. CASE name = << >> BY <2>1, <2>2, <2>3, <3>1
    <3>2. CASE name # << >> BY <1>1, <2>2, <2>3, <3>2 DEF Spaced
    <3> QED BY <3>1, <3>2
  <2>5. ASSUME NEW k \in 1..(Len(new) - 1) PROVE new[k] # "-" \/ new[k + 1] # "-"
    <3>1. CASE k < Len(name) BY <1>1, <2>2, <3>1 DEF Spaced
    <3>2. CASE k = Len(name) BY <1>1, <2>1, <2>2, <2>3, <3>2 DEF Last
    <3> QED BY <1>1, <2>2, <3>1, <3>2
  <2> QED BY <2>1, <2>2, <2>4, <2>5 DEF Spaced
<1> QED BY <1>2, <1>3

\* Whatever is typed.
LEMMA DashedSpaced ==
  ASSUME NEW text \in Seq(Chars)
  PROVE  Spaced(Dashed(text))
<1>1. Len(text) \in Nat /\ \A k \in 1..Len(text) : Folded[text[k]] \in NameChars
  BY NamesAssumption DEF NamesAssumption, NameChars
<1>2. PICK g : Writing(g, text, Len(text)) /\ Dashed(text) = g[Len(text)]
  BY <1>1, DashedIsWritten
<1> DEFINE H == {k \in Nat : k <= Len(text) => Spaced(g[k])}
<1>3. 0 \in H
  <2>1. g[0] = << >> BY <1>1, <1>2 DEF Writing
  <2>2. Spaced(<< >>) BY DEF Spaced
  <2> QED BY <2>1, <2>2
<1>4. ASSUME NEW k \in H PROVE k + 1 \in H
  <2> SUFFICES ASSUME k + 1 <= Len(text) PROVE Spaced(g[k + 1])
    OBVIOUS
  <2>1. g[k + 1] = Written(g[k], Folded[text[k + 1]]) BY <1>1, <1>2 DEF Writing
  <2>2. Spaced(g[k]) /\ Folded[text[k + 1]] \in NameChars BY <1>1
  <2> QED BY <2>1, <2>2, WrittenSpaced
<1>5. H = Nat
  <2> HIDE DEF H
  <2>1. H \subseteq Nat BY DEF H
  <2> QED BY <1>3, <1>4, <2>1, Induction
<1> QED BY <1>1, <1>2, <1>5

\* A name that is spaced already is written as it is.
LEMMA SpacedKept ==
  ASSUME NEW name, Spaced(name)
  PROVE  Dashed(name) = name
<1>1. name \in Seq(NameChars) /\ Len(name) \in Nat
      /\ \A k \in 1..Len(name) : name[k] \in NameChars
  BY DEF Spaced
<1>2. PICK g : Writing(g, name, Len(name)) /\ Dashed(name) = g[Len(name)]
  BY <1>1, DashedIsWritten
<1> DEFINE H == {k \in Nat : k <= Len(name) => g[k] = SubSeq(name, 1, k)}
<1>3. 0 \in H
  <2>1. g[0] = << >> BY <1>1, <1>2 DEF Writing
  <2>2. SubSeq(name, 1, 0) = << >> BY SubSeqEmpty
  <2> QED BY <2>1, <2>2
<1>4. ASSUME NEW k \in H PROVE k + 1 \in H
  <2> SUFFICES ASSUME k + 1 <= Len(name) PROVE g[k + 1] = SubSeq(name, 1, k + 1)
    OBVIOUS
  <2> DEFINE before == SubSeq(name, 1, k)
             c      == name[k + 1]
  <2>1. c \in NameChars BY <1>1
  <2>2. Folded[c] = c BY <2>1, NamesAssumption DEF NamesAssumption, NameChars, Alnum
  <2>3. g[k + 1] = Written(before, c)
    <3>1. g[k] = before OBVIOUS
    <3>2. g[k + 1] = Written(g[k], Folded[c]) BY <1>1, <1>2 DEF Writing
    <3> QED BY <2>2, <3>1, <3>2
  <2>4. /\ before \in Seq(NameChars) /\ Len(before) = k
        /\ \A i \in 1..k : before[i] = name[i]
    BY <1>1, SubSeqProperties
  <2>5. SubSeq(name, 1, k + 1) = Append(before, c)
    <3>1. SubSeq(name, 1, k + 1) = SubSeq(name, 1, k) \o <<name[k + 1]>>
      BY <1>1, SubSeqRecursiveSecond
    <3> QED BY <2>1, <2>4, <3>1, AppendIsConcat
  <2> HIDE DEF before, c
  <2>6. ~(c = "-" /\ (before = << >> \/ Last(before) = "-"))
    <3> SUFFICES ASSUME c = "-" PROVE before # << >> /\ Last(before) # "-"
      OBVIOUS
    <3>1. k # 0 BY <1>1 DEF c, Spaced
    <3>2. before # << >> BY <2>4, <3>1
    <3>3. name[k] # "-" BY <1>1, <3>1 DEF c, Spaced
    <3> QED BY <2>4, <3>1, <3>2, <3>3 DEF Last
  <2> QED BY <2>3, <2>5, <2>6 DEF Written
<1>5. H = Nat
  <2> HIDE DEF H
  <2>1. H \subseteq Nat BY DEF H
  <2> QED BY <1>3, <1>4, <2>1, Induction
<1>6. g[Len(name)] = SubSeq(name, 1, Len(name)) BY <1>1, <1>5
<1>7. SubSeq(name, 1, Len(name)) = name BY <1>1, SubSeqFull
<1> QED BY <1>2, <1>6, <1>7

\* The beginning of a spaced name, without a dash at its end.
LEMMA TrimmedPrefix ==
  ASSUME NEW name, Spaced(name), NEW n \in 0..Len(name)
  PROVE  /\ Clean(Trimmed(SubSeq(name, 1, n)))
         /\ Len(Trimmed(SubSeq(name, 1, n))) <= n
         /\ n > 0 => Trimmed(SubSeq(name, 1, n)) # << >>
<1>1. name \in Seq(NameChars) /\ Len(name) \in Nat /\ n \in Nat BY DEF Spaced
<1>2. ASSUME NEW m \in 0..n
      PROVE  /\ Spaced(SubSeq(name, 1, m)) /\ Len(SubSeq(name, 1, m)) = m
             /\ m > 0 => Last(SubSeq(name, 1, m)) = name[m]
  <2> DEFINE s == SubSeq(name, 1, m)
  <2>1. \A i \in 1..m : name[i] \in NameChars BY <1>1
  <2>2. s \in Seq(NameChars) /\ Len(s) = m /\ \A i \in 1..m : s[i] = name[i]
    BY <1>1, <2>1, SubSeqProperties
  <2> HIDE DEF s
  <2>3. Spaced(s) BY <1>1, <2>2 DEF Spaced
  <2> QED BY <2>2, <2>3 DEF s, Last
<1> DEFINE s == SubSeq(name, 1, n)
<1>3. Spaced(s) /\ Len(s) = n /\ (n > 0 => Last(s) = name[n]) BY <1>1, <1>2
<1>4. s = << >> <=> n = 0 BY <1>3 DEF Spaced
<1> SUFFICES Clean(Trimmed(s)) /\ Len(Trimmed(s)) <= n /\ (n > 0 => Trimmed(s) # << >>)
  OBVIOUS
<1>5. CASE n = 0 \/ name[n] # "-"
  <2> HIDE DEF s
  <2>1. Trimmed(s) = s BY <1>3, <1>4, <1>5 DEF Trimmed
  <2> QED BY <1>1, <1>3, <1>4, <1>5, <2>1 DEF Clean, Trim
<1>6. CASE n > 0 /\ name[n] = "-"
  <2>1. Trimmed(s) = SubSeq(s, 1, n - 1) BY <1>3, <1>4, <1>6 DEF Trimmed, Front
  <2>2. n > 1 /\ name[n - 1] # "-"
    <3>1. n # 1 BY <1>1, <1>6 DEF Spaced
    <3>2. n - 1 \in 1..(Len(name) - 1) BY <1>1, <1>6, <3>1
    <3> QED BY <1>1, <1>6, <3>1, <3>2 DEF Spaced
  <2>3. SubSeq(s, 1, n - 1) = SubSeq(name, 1, n - 1)
    BY <1>1, <2>2, SubSeqOfSubSeq
  <2>4. /\ Spaced(SubSeq(name, 1, n - 1)) /\ Len(SubSeq(name, 1, n - 1)) = n - 1
        /\ Last(SubSeq(name, 1, n - 1)) = name[n - 1]
    BY <1>1, <1>2, <2>2
  <2> DEFINE cut == SubSeq(name, 1, n - 1)
  <2>5. Trimmed(s) = cut BY <2>1, <2>3
  <2> HIDE DEF s, cut
  <2>6. cut # << >> BY <1>1, <2>2, <2>4 DEF cut
  <2> QED BY <1>1, <2>2, <2>4, <2>5, <2>6 DEF Clean, Trim, cut
<1> QED BY <1>1, <1>5, <1>6

LEMMA TrimmedClean ==
  ASSUME NEW name, Spaced(name)
  PROVE  Clean(Trimmed(name)) /\ (name # << >> => Trimmed(name) # << >>)
<1>1. name \in Seq(NameChars) /\ Len(name) \in Nat /\ (name # << >> => Len(name) > 0)
  BY DEF Spaced
<1>2. SubSeq(name, 1, Len(name)) = name BY <1>1, SubSeqFull
<1>3. Len(name) \in 0..Len(name) BY <1>1
<1>4. Clean(Trimmed(name)) /\ (Len(name) > 0 => Trimmed(name) # << >>)
  BY <1>2, <1>3, TrimmedPrefix
<1> QED BY <1>1, <1>4

LEMMA CutClean ==
  ASSUME NEW name, Clean(name), NEW n \in Nat \ {0}
  PROVE  /\ Clean(Cut(name, n)) /\ Len(Cut(name, n)) <= n
         /\ name # << >> => Cut(name, n) # << >>
<1>1. Spaced(name) /\ Len(name) \in Nat BY DEF Clean, Spaced
<1>2. CASE Len(name) > n
  <2>1. Cut(name, n) = Trimmed(SubSeq(name, 1, n)) BY <1>2 DEF Cut
  <2>2. n \in 0..Len(name) /\ n > 0 BY <1>1, <1>2
  <2> QED BY <1>1, <2>1, <2>2, TrimmedPrefix
<1>3. CASE Len(name) <= n
  <2>1. Cut(name, n) = name BY <1>1, <1>3 DEF Cut
  <2> QED BY <1>1, <1>3, <2>1
<1> QED BY <1>1, <1>2, <1>3

\* Letters and digits after a clean name and a dash, or after the prefix.
LEMMA SuffixClean ==
  ASSUME NEW name, Clean(name), NEW w \in Words
  PROVE  LET long == (IF name = << >> THEN RoomPrefix ELSE Append(name, "-")) \o w
         IN  /\ Clean(long) /\ long # << >>
             /\ Len(long) = (IF name = << >> THEN 2 ELSE Len(name) + 1) + Len(w)
<1> DEFINE head == IF name = << >> THEN RoomPrefix ELSE Append(name, "-")
           long == head \o w
<1>1. name \in Seq(NameChars) /\ Len(name) \in Nat BY DEF Clean, Spaced
<1>2. w \in Seq(NameChars) /\ Len(w) \in Nat \ {0}
      /\ \A i \in 1..Len(w) : w[i] \in NameChars /\ w[i] # "-"
  BY SeqMonotonic, EmptySeq DEF Words, NameChars, Alnum
<1>3. "r" \in NameChars /\ "-" \in NameChars /\ "r" # "-"
  BY NamesAssumption DEF NamesAssumption, NameChars, Alnum
<1>4. /\ head \in Seq(NameChars)
      /\ Len(head) = IF name = << >> THEN 2 ELSE Len(name) + 1
      /\ Len(head) > 1 /\ head[1] # "-" /\ head[Len(head) - 1] # "-"
      /\ \A k \in 1..(Len(head) - 1) : head[k] # "-" \/ head[k + 1] # "-"
  <2>1. CASE name = << >>
    BY <1>3, <2>1 DEF RoomPrefix
  <2>2. CASE name # << >>
    <3>1. /\ head \in Seq(NameChars) /\ Len(head) = Len(name) + 1
          /\ head[Len(name) + 1] = "-" /\ \A i \in 1..Len(name) : head[i] = name[i]
      BY <1>1, <1>3, <2>2, AppendProperties
    <3>2. Len(name) > 0 BY <1>1, <2>2, EmptySeq
    <3> HIDE DEF head
    <3>3. name[1] # "-" /\ name[Len(name)] # "-"
          /\ \A k \in 1..(Len(name) - 1) : name[k] # "-" \/ name[k + 1] # "-"
      BY <2>2 DEF Clean, Spaced, Trim, Last
    <3> QED BY <1>1, <2>2, <3>1, <3>2, <3>3
  <2> QED BY <2>1, <2>2
<1> HIDE DEF head
<1>5. /\ long \in Seq(NameChars) /\ Len(long) = Len(head) + Len(w)
      /\ \A i \in 1..(Len(head) + Len(w)) :
           long[i] = IF i <= Len(head) THEN head[i] ELSE w[i - Len(head)]
  BY <1>2, <1>4, ConcatProperties
<1> HIDE DEF long
<1>6. Len(head) \in Nat BY <1>4
<1>7. ASSUME NEW k \in 1..(Len(long) - 1) PROVE long[k] # "-" \/ long[k + 1] # "-"
  <2>1. CASE k < Len(head)
    <3>1. long[k] = head[k] /\ long[k + 1] = head[k + 1] BY <1>2, <1>5, <1>6, <2>1
    <3>2. k \in 1..(Len(head) - 1) BY <1>6, <2>1
    <3> QED BY <1>4, <3>1, <3>2
  <2>2. CASE k >= Len(head)
    <3>1. k + 1 - Len(head) \in 1..Len(w) BY <1>2, <1>5, <1>6, <2>2
    <3>2. long[k + 1] = w[k + 1 - Len(head)] BY <1>2, <1>5, <1>6, <2>2
    <3> QED BY <1>2, <3>1, <3>2
  <2> QED BY <1>6, <2>1, <2>2
<1>8. long[1] = head[1] BY <1>2, <1>4, <1>5, <1>6
<1>9. long[Len(long)] = w[Len(w)] BY <1>2, <1>5, <1>6
<1>10. w[Len(w)] # "-" BY <1>2
<1>11. Clean(long) /\ long # << >>
  BY <1>2, <1>4, <1>5, <1>6, <1>7, <1>8, <1>9, <1>10 DEF Clean, Spaced, Trim, Last
<1> QED BY <1>4, <1>5, <1>11 DEF head, long

\* A usable name: clean, not empty, and not too long for LiveKit.
Usable(name) == Clean(name) /\ name # << >> /\ Len(name) <= MaxRoomLen

LEMMA SlugsUsable ==
  ASSUME NEW text \in Seq(Chars), NEW slug \in SlugRoom(text)
  PROVE  Usable(slug)
<1>1. MaxRoomLen \in Nat \ {0} BY NamesAssumption DEF NamesAssumption
<1>2. Clean(Trimmed(Dashed(text))) BY DashedSpaced, TrimmedClean
<1> DEFINE cut == Cut(Trimmed(Dashed(text)), MaxRoomLen)
<1>3. Clean(cut) /\ Len(cut) <= MaxRoomLen BY <1>1, <1>2, CutClean
<1>4. CASE cut # << >>
  BY <1>3, <1>4 DEF SlugRoom, Usable
<1>5. CASE cut = << >>
  <2>1. PICK id \in Ids : slug = RoomPrefix \o id BY <1>5 DEF SlugRoom
  <2>2. id \in Words /\ Len(id) \in Nat /\ 2 + Len(id) + SuffixLen + 1 <= MaxRoomLen
        /\ SuffixLen \in Nat
    BY NamesAssumption DEF NamesAssumption, Words, RoomPrefix
  <2>3. Clean(<< >>) BY DEF Clean, Spaced, Trim
  <2>4. Clean(slug) /\ slug # << >> /\ Len(slug) = 2 + Len(id)
    BY <2>1, <2>2, <2>3, SuffixClean
  <2> QED BY <1>1, <2>2, <2>4 DEF Usable
<1> QED BY <1>4, <1>5

LEMMA UniqueSlugsUsable ==
  ASSUME NEW text \in Seq(Chars), NEW slug \in SlugRoomUnique(text)
  PROVE  Usable(slug)
<1> DEFINE room == MaxRoomLen - SuffixLen - 1
<1>1. room \in Nat \ {0} /\ SuffixLen \in Nat /\ MaxRoomLen \in Nat
  BY NamesAssumption DEF NamesAssumption
<1>2. PICK s \in SlugRoom(text), w \in ShortIds :
        slug = (IF Cut(s, room) = << >> THEN RoomPrefix ELSE Append(Cut(s, room), "-")) \o w
  <2> DEFINE cuts == {Cut(s, room) : s \in SlugRoom(text)}
             full(c, w) == (IF c = << >> THEN RoomPrefix ELSE Append(c, "-")) \o w
  <2>1. SlugRoomUnique(text) = {full(c, w) : c \in cuts, w \in ShortIds}
    BY DEF SlugRoomUnique
  <2> HIDE DEF full
  <2>2. PICK c \in cuts, w \in ShortIds : slug = full(c, w)
    <3> HIDE DEF cuts
    <3> QED BY <2>1
  <2>3. PICK s \in SlugRoom(text) : c = Cut(s, room) OBVIOUS
  <2> QED BY <2>2, <2>3 DEF full
<1> DEFINE cut == Cut(s, room)
<1>3. Clean(cut) /\ Len(cut) <= room /\ cut # << >>
  BY <1>1, SlugsUsable, CutClean DEF Usable
<1>4. w \in Words /\ Len(w) \in Nat /\ Len(w) <= SuffixLen
  BY NamesAssumption DEF NamesAssumption, Words
<1>5. Clean(slug) /\ slug # << >> /\ Len(slug) = Len(cut) + 1 + Len(w)
  BY <1>2, <1>3, <1>4, SuffixClean
<1>6. Len(cut) \in Nat BY <1>3 DEF Clean, Spaced
<1> QED BY <1>1, <1>3, <1>4, <1>5, <1>6 DEF Usable

\* Typing a usable name in again gives that name and no other.
LEMMA UsableKept ==
  ASSUME NEW name, Usable(name)
  PROVE  SlugRoom(name) = {name}
<1>1. Dashed(name) = name BY SpacedKept DEF Usable, Clean
<1>2. Trimmed(name) = name BY DEF Usable, Clean, Trim, Trimmed
<1>3. Len(name) \in Nat /\ MaxRoomLen \in Nat
  BY NamesAssumption DEF NamesAssumption, Usable, Clean, Spaced
<1>4. Cut(name, MaxRoomLen) = name BY <1>3 DEF Usable, Cut
<1> QED BY <1>1, <1>2, <1>4 DEF SlugRoom, Usable

-----------------------------------------------------------------------------
(* The service. *)

MeetingFields == {"room", "host"} \cup Fields

\* The inductive invariant: nothing takes the meeting from its creator, and what
\* a PATCH is going to write is what its caller gave.
AccessInv ==
  /\ TypeOK
  /\ meeting # NoMeeting =>
       /\ DOMAIN meeting = MeetingFields
       /\ meeting.host = creator.id
       /\ DOMAIN meeting.invitees \subseteq Nat
  /\ \A r \in Requests : patch[r] # NoInput => given[r] = DOMAIN patch[r]
  /\ meeting = NoMeeting => \A r \in Requests : patch[r] = NoInput

\* What is stored of a list of invitees.
LEMMA Normalized ==
  ASSUME NEW list \in Seq(Invitee)
  PROVE  /\ DOMAIN NormalizeInvitees(list) \subseteq Nat
         /\ \A i \in DOMAIN NormalizeInvitees(list) :
              LET inv == NormalizeInvitees(list)[i]
              IN  inv.role \in Roles /\ (inv.id # "" \/ inv.username # "")
<1>1. DOMAIN NormalizeInvitees(list) = Named(list) /\ Named(list) \subseteq DOMAIN list
  BY DEF NormalizeInvitees, Named
<1>2. DOMAIN list \subseteq Nat OBVIOUS
<1>3. ASSUME NEW i \in Named(list)
      PROVE  LET inv == NormalizeInvitees(list)[i]
             IN  inv.role \in Roles /\ (inv.id # "" \/ inv.username # "")
  <2> DEFINE role == IF list[i].role \in Roles THEN list[i].role ELSE "speaker"
  <2>1. list[i] \in Invitee BY <1>1
  <2>2. role \in Roles BY DEF Roles
  <2>3. NormalizeInvitees(list)[i] = [list[i] EXCEPT !.role = role]
    BY <1>3 DEF NormalizeInvitees
  <2> HIDE DEF role
  <2>4. LET inv == [list[i] EXCEPT !.role = role]
        IN  inv.role = role /\ inv.id = list[i].id /\ inv.username = list[i].username
    BY <2>1 DEF Invitee
  <2>5. list[i].id # "" \/ list[i].username # "" BY <1>3 DEF Named
  <2> QED BY <2>2, <2>3, <2>4, <2>5
<1> QED BY <1>1, <1>2, <1>3

LEMMA InitAccess == Init => AccessInv
BY DEF Init, AccessInv, TypeOK

LEMMA CreateAccess ==
  ASSUME AccessInv, NEW u \in Users, NEW text \in Texts, NEW in \in Inputs,
         CreateMeeting(u, text, in)
  PROVE  AccessInv'
<1>1. PICK room \in Slugs[text] \cup SlugRoomUnique(text), own \in OwnDivisions(u) :
        meeting' = Created(u, room, own, in)
  BY DEF CreateMeeting
<1>2. /\ meeting'.room = room /\ meeting'.host = u.id
      /\ meeting'.open = Given(in, "open", FALSE)
      /\ meeting'.invitees = NormalizeInvitees(Given(in, "invitees", << >>))
      /\ DOMAIN meeting' = MeetingFields
  BY <1>1 DEF Created, MeetingFields, Fields
<1>3. room \in Names BY DEF Names
<1>4. meeting'.open \in BOOLEAN
  <2>1. Given(in, "open", FALSE) \in BOOLEAN
    BY AccessAssumption DEF AccessAssumption, Given
  <2> QED BY <1>2, <2>1
<1>5. Given(in, "invitees", << >>) \in Seq(Invitee)
  BY AccessAssumption DEF AccessAssumption, Given
<1>6. /\ DOMAIN meeting'.invitees \subseteq Nat
      /\ \A i \in DOMAIN meeting'.invitees :
           LET inv == meeting'.invitees[i]
           IN  inv.role \in Roles /\ (inv.id # "" \/ inv.username # "")
  BY <1>2, <1>5, Normalized
<1>7. meeting = NoMeeting /\ UNCHANGED <<patch, given>> /\ creator' = u
  BY DEF CreateMeeting
<1> QED BY <1>2, <1>3, <1>4, <1>6, <1>7 DEF AccessInv, TypeOK

LEMMA BeginAccess ==
  ASSUME AccessInv, NEW r \in Requests, NEW u \in Users, NEW in \in Inputs,
         BeginUpdate(r, u, in)
  PROVE  AccessInv'
<1>1. in # NoInput /\ DOMAIN in \subseteq Fields
  BY AccessAssumption DEF AccessAssumption
<1> QED BY <1>1 DEF BeginUpdate, AccessInv, TypeOK

LEMMA WriteAccess ==
  ASSUME AccessInv, NEW r \in Requests, WriteUpdate(r)
  PROVE  AccessInv'
<1> DEFINE in == patch[r]
<1>1. in \in Inputs /\ in # NoInput /\ meeting # NoMeeting
  BY DEF AccessInv, TypeOK, WriteUpdate
<1>2. /\ patch' = [patch EXCEPT ![r] = NoInput] /\ given' = [given EXCEPT ![r] = {}]
      /\ creator' = creator /\ meeting' = Patched(meeting, in)
  BY DEF WriteUpdate
<1>3. patch' \in [Requests -> Inputs \cup {NoInput}] /\ given' \in [Requests -> SUBSET Fields]
      /\ \A q \in Requests : patch'[q] # NoInput => given'[q] = DOMAIN patch'[q]
  BY <1>2 DEF AccessInv, TypeOK
<1>4. ASSUME meeting # NoMeeting
      PROVE  /\ DOMAIN meeting' = MeetingFields
             /\ meeting'.host = creator.id /\ meeting'.room = meeting.room
             /\ meeting'.open \in BOOLEAN
             /\ DOMAIN meeting'.invitees \subseteq Nat
             /\ \A i \in DOMAIN meeting'.invitees :
                  LET inv == meeting'.invitees[i]
                  IN  inv.role \in Roles /\ (inv.id # "" \/ inv.username # "")
  <2>1. /\ DOMAIN meeting = MeetingFields /\ meeting.host = creator.id
        /\ meeting.open \in BOOLEAN
    BY <1>4 DEF AccessInv, TypeOK
  <2>2. DOMAIN in \subseteq Fields BY <1>1, AccessAssumption DEF AccessAssumption
  <2>3. DOMAIN meeting' = MeetingFields BY <1>2, <2>1 DEF Patched
  <2>4. \A f \in MeetingFields \ DOMAIN in : meeting'[f] = meeting[f]
    BY <1>2, <2>1 DEF Patched
  <2>5. \A f \in MeetingFields \cap DOMAIN in : f # "invitees" => meeting'[f] = in[f]
    BY <1>2, <2>1 DEF Patched
  <2>6. meeting'.host = creator.id /\ meeting'.room = meeting.room
    BY <2>1, <2>2, <2>4 DEF MeetingFields, Fields
  <2>7. meeting'.open \in BOOLEAN
    BY <1>1, <2>1, <2>4, <2>5, AccessAssumption DEF AccessAssumption, MeetingFields, Fields
  <2>8. CASE "invitees" \in DOMAIN in
    <3>1. meeting'.invitees = NormalizeInvitees(in.invitees)
      BY <1>2, <2>1, <2>8 DEF Patched, MeetingFields, Fields
    <3>2. in.invitees \in Seq(Invitee) BY <1>1, <2>8, AccessAssumption DEF AccessAssumption
    <3> QED BY <2>3, <2>6, <2>7, <3>1, <3>2, Normalized
  <2>9. CASE "invitees" \notin DOMAIN in
    <3>1. meeting'.invitees = meeting.invitees BY <2>4, <2>9 DEF MeetingFields, Fields
    <3> QED BY <1>4, <2>3, <2>6, <2>7, <3>1 DEF AccessInv, TypeOK
  <2> QED BY <2>8, <2>9
<1>5. meeting' # NoMeeting
  <2>1. DOMAIN NoMeeting = {"room"} BY DEF NoMeeting
  <2>2. "host" \in DOMAIN meeting' BY <1>1, <1>4 DEF MeetingFields
  <2> QED BY <2>1, <2>2
<1> QED BY <1>1, <1>2, <1>3, <1>4, <1>5 DEF AccessInv, TypeOK

LEMMA DeleteAccess ==
  ASSUME AccessInv, NEW u \in Users, DeleteMeeting(u)
  PROVE  AccessInv'
BY DEF DeleteMeeting, AccessInv, TypeOK

LEMMA AccessStep == AccessInv /\ [Next]_vars => AccessInv'
<1> SUFFICES ASSUME AccessInv, [Next]_vars PROVE AccessInv'
  OBVIOUS
<1>1. CASE UNCHANGED vars BY <1>1 DEF vars, AccessInv, TypeOK
<1>2. ASSUME NEW u \in Users, NEW text \in Texts, NEW in \in Inputs,
             CreateMeeting(u, text, in)
      PROVE  AccessInv'
  BY <1>2, CreateAccess
<1>3. ASSUME NEW u \in Users, NEW r \in Requests, NEW in \in Inputs, BeginUpdate(r, u, in)
      PROVE  AccessInv'
  BY <1>3, BeginAccess
<1>4. ASSUME NEW u \in Users, DeleteMeeting(u) PROVE AccessInv'
  BY <1>4, DeleteAccess
<1>5. ASSUME NEW r \in Requests, WriteUpdate(r) PROVE AccessInv'
  BY <1>5, WriteAccess
<1> QED BY <1>1, <1>2, <1>3, <1>4, <1>5 DEF Next

LEMMA AccessInvariance == Spec => []AccessInv
<1> QED BY InitAccess, AccessStep, PTL DEF Spec

\* Stored meetings are well formed, whatever is sent.
THEOREM AccessTypes == Spec => []TypeOK
<1>1. AccessInv => TypeOK BY DEF AccessInv
<1> QED BY <1>1, AccessInvariance, PTL

\* For any users and invitations: who is let in to rule a room may manage its
\* meeting, no guest rules one, and a room without a meeting only a director does.
THEOREM AdminsManage == Spec => []AdminTokensManage
<1>1. ASSUME AccessInv, NEW u \in Users
      PROVE  \A t \in Joined(u) : Deserved(t)
  <2> SUFFICES ASSUME NEW t \in Joined(u), t.admin PROVE Deserved(t)
    BY DEF Deserved
  <2>1. u # Guest BY AccessAssumption DEF AccessAssumption
  <2>2. meeting # NoMeeting /\ t = MeetingGrant(meeting, u) BY DEF Joined
  <2>3. t.to = u /\ t.room = meeting.room /\ RoleFor(meeting, u) = "host"
    BY <2>2 DEF MeetingGrant
  <2>4. CanManage(meeting, u) BY <1>1, <2>2, <2>3, HostsManage DEF AccessInv
  <2> QED BY <2>1, <2>2, <2>3, <2>4 DEF Deserved
<1>2. \A t \in ByGuestLink : Deserved(t)
  <2>1. ~GuestGrant(meeting, Guest).admin BY DEF GuestGrant
  <2> QED BY <2>1 DEF ByGuestLink, Deserved
<1>3. ASSUME AccessInv, NEW u \in Users, NEW text \in Texts, NEW role,
             NEW t \in AdHoc(u, text, role)
      PROVE  Deserved(t)
  <2>1. CASE t \in Joined(u) BY <1>1, <1>3, <2>1
  <2>2. CASE t \notin Joined(u)
    <3> SUFFICES ASSUME t.admin PROVE Deserved(t)
      BY DEF Deserved
    <3>1. PICK room \in Slugs[text] : t = FreeGrant(room, u, role)
      BY <2>2 DEF AdHoc
    <3>2. t.to = u BY <3>1 DEF FreeGrant
    <3>3. u # Guest BY AccessAssumption DEF AccessAssumption
    <3>4. IsDirector(u) BY <3>1, FreeAdmins
    <3> QED BY <3>2, <3>3, <3>4 DEF Deserved
  <2> QED BY <2>1, <2>2
<1>4. AccessInv => AdminTokensManage
  BY <1>1, <1>2, <1>3 DEF AdminTokensManage
<1> QED BY <1>4, AccessInvariance, PTL

\* For any meeting and user: listed means let in and the reverse; managing means let
\* in, unless it rests on an empty username equal to an invited host's empty username.
THEOREM ListAgrees == Spec => []SeesWhatHeEnters
<1>1. SeesWhatHeEnters
  BY ListShowsWhatOpens, ManagersEnter DEF SeesWhatHeEnters
<1> QED BY <1>1, PTL

\* The creator stays host and manager whatever PATCHes are stored.
THEOREM CreatorStays == Spec => []CreatorInControl
<1>1. AccessInv => CreatorInControl
  BY DEF AccessInv, CreatorInControl, IsHost, CanManage, MayEnter, RoleFor
<1> QED BY <1>1, AccessInvariance, PTL

\* For any texts, names and lengths: a room is found again by its own name, which
\* is short enough for LiveKit.
THEOREM OwnNames == Spec => []OwnNameFinds
<1>1. ASSUME NEW name \in Names PROVE SlugRoom(name) = {name} /\ Len(name) <= MaxRoomLen
  <2>1. PICK t \in Texts : name \in SlugRoom(t) \cup SlugRoomUnique(t)
    BY DEF Names, Slugs
  <2>2. t \in Seq(Chars) BY AccessAssumption DEF AccessAssumption
  <2>3. Usable(name) BY <2>1, <2>2, SlugsUsable, UniqueSlugsUsable
  <2> QED BY <2>3, UsableKept DEF Usable
<1>2. AccessInv => OwnNameFinds
  BY <1>1 DEF AccessInv, TypeOK, OwnNameFinds
<1> QED BY <1>2, AccessInvariance, PTL

\* For any number of minutes and any width of the integers.
THEOREM LifeAsAsked == Spec => []TokensExpire
<1>1. ASSUME NEW n \in Int
      PROVE  0 < TokenLife(n) /\ TokenLife(n) <= IF n > 0 THEN n * Minute ELSE DefaultLife
  <2>0. DefaultLife \in Int /\ Half \in Int /\ 0 < DefaultLife /\ DefaultLife < Half
        /\ Minute \in Nat
    BY LifeAssumption DEF LifeAssumption
  <2>1. CASE n <= 0
    BY <2>0, <2>1 DEF TokenLife, AskedLife
  <2>2. CASE n > 0
    <3> DEFINE ns == n * Minute
    <3>1. ns \in Nat BY <2>0, <2>2
    <3>2. AskedLife(n) = Wrapped(ns) BY <2>2 DEF AskedLife
    <3> HIDE DEF ns
    <3>3. Wrapped(ns) \in Int /\ Wrapped(ns) <= ns BY <3>1, WrapsDown
    <3>4. CASE Wrapped(ns) > 0
      BY <2>2, <3>2, <3>3, <3>4 DEF TokenLife, ns
    <3>5. CASE Wrapped(ns) <= 0
      <4>1. DefaultLife <= ns
        <5>1. CASE ns >= Half BY <2>0, <3>1, <5>1
        <5>2. CASE ns < Half
          <6>1. Wrapped(ns) = ns
            <7> DEFINE sum == ns + Half
                       word == 2 * Half
            <7>1. \A w \in Nat, k \in Nat \ {0} : w < k => w % k = w
              OBVIOUS
            <7>2. sum \in Nat /\ word \in Nat \ {0} /\ sum < word
              BY <2>0, <3>1, <5>2
            <7>3. Wrapped(ns) = (sum % word) - Half BY DEF Wrapped
            <7>4. sum = ns + Half OBVIOUS
            <7> HIDE DEF sum, word
            <7>5. sum % word = sum BY <7>1, <7>2
            <7> QED BY <2>0, <3>1, <7>3, <7>4, <7>5
          <6>2. ns > 0
            <7>1. Minute > 0 BY LifeAssumption DEF LifeAssumption
            <7>2. \A a, b \in Nat : a > 0 /\ b > 0 => a * b > 0 OBVIOUS
            <7> QED BY <2>0, <2>2, <7>1, <7>2 DEF ns
          <6> QED BY <3>1, <3>5, <6>1, <6>2
        <5> QED BY <2>0, <3>1, <5>1, <5>2
      <4> QED BY <2>0, <2>2, <3>2, <3>5, <4>1 DEF TokenLife, ns
    <3> QED BY <3>3, <3>4, <3>5
  <2> QED BY <2>1, <2>2
<1>2. TokensExpire
  BY <1>1, AccessAssumption DEF AccessAssumption, TokensExpire
<1> QED BY <1>2, PTL

\* Any number of PATCHes in flight: none writes a field its caller did not give.
THEOREM PatchesOnlyMerge == Spec => PatchesMerge
<1> DEFINE OnlyGiven ==
      meeting # NoMeeting /\ meeting' # NoMeeting =>
        \A f \in DOMAIN meeting : meeting'[f] # meeting[f] =>
          \E r \in Requests : f \in given[r] /\ given'[r] = {}
<1>1. AccessInv /\ [Next]_vars => [OnlyGiven]_vars
  <2> SUFFICES ASSUME AccessInv, Next, meeting # NoMeeting, meeting' # NoMeeting,
                      NEW f \in DOMAIN meeting, meeting'[f] # meeting[f]
               PROVE  \E r \in Requests : f \in given[r] /\ given'[r] = {}
    OBVIOUS
  <2>1. PICK r \in Requests : WriteUpdate(r)
    BY DEF Next, CreateMeeting, BeginUpdate, DeleteMeeting
  <2>2. meeting' = Patched(meeting, patch[r]) /\ patch[r] # NoInput
        /\ given' = [given EXCEPT ![r] = {}]
    BY <2>1 DEF WriteUpdate
  <2>3. f \in DOMAIN patch[r] BY <2>2 DEF Patched
  <2> QED BY <2>2, <2>3 DEF AccessInv, TypeOK
<1>2. PatchesMerge <=> [][OnlyGiven]_vars BY DEF PatchesMerge
<1> QED BY <1>1, <1>2, AccessInvariance, PTL DEF Spec
=============================================================================
