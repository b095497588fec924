--------------------------- MODULE CliLogin_proofs ---------------------------
(***************************************************************************)
(* Proofs about ~/.borehole.json, for any number of commands at any time.  *)
(*                                                                         *)
(* A command whose settings another one has changed since it loaded them   *)
(* is stale, and one that saves makes all others stale: nobody else can    *)
(* load the torn file.  So the settings of a command that is not stale are *)
(* those that were intended.  The second part is the expiry of the token:  *)
(* what the server encodes is what the command decodes.                    *)
(***************************************************************************)
EXTENDS CliLogin, SequenceTheorems, TLAPS

-----------------------------------------------------------------------------
(* The redirect *)

\* u is s, of n elements, and then t, of m.
Join(s, n, t, m, u, S) ==
  /\ n \in Nat /\ m \in Nat
  /\ s \in [1 .. n -> S] /\ t \in [1 .. m -> S] /\ u \in [1 .. n + m -> S]
  /\ \A i \in 1 .. n : u[i] = s[i]
  /\ \A i \in 1 .. m : u[n + i] = t[i]

\* Then it is their concatenation.
LEMMA Joined ==
  ASSUME NEW s, NEW n, NEW t, NEW m, NEW u, NEW S, Join(s, n, t, m, u, S)
  PROVE  s \o t = u
<1> USE DEF Join
<1>1. s \in Seq(S) /\ Len(s) = n /\ t \in Seq(S) /\ Len(t) = m /\ u \in Seq(S) /\ Len(u) = n + m
  OBVIOUS
<1>2. ASSUME NEW i \in 1 .. n + m
      PROVE  u[i] = IF i <= n THEN s[i] ELSE t[i - n]
  <2>1. CASE i <= n
    BY <2>1
  <2>2. CASE i > n
    <3>1. PICK j \in 1 .. m : i = n + j
      <4>1. i - n \in 1 .. m /\ i = n + (i - n)
        BY <2>2
      <4> QED BY <4>1
    <3> QED BY <2>2, <3>1
  <2> QED BY <2>1, <2>2
<1>3. /\ s \o t \in Seq(S) /\ Len(s \o t) = n + m
      /\ \A i \in 1 .. n + m : (s \o t)[i] = IF i <= n THEN s[i] ELSE t[i - n]
  BY <1>1, ConcatProperties
<1>4. \A i \in 1 .. n + m : (s \o t)[i] = u[i]
  BY <1>2, <1>3
<1> QED BY <1>1, <1>3, <1>4, SeqEqual

\* The concatenations below, by their lengths.
LEMMA Joined10 == ASSUME NEW a PROVE <<a>> \o <<>> = <<a>>
OBVIOUS

LEMMA Joined11 ==
  ASSUME NEW a, NEW b
  PROVE  <<a>> \o <<b>> = <<a, b>>
<1>1. Join(<<a>>, 1, <<b>>, 1, <<a, b>>,
           {a, b})
  BY DEF Join
<1> QED BY <1>1, Joined

LEMMA Joined12 ==
  ASSUME NEW a, NEW b, NEW c
  PROVE  <<a>> \o <<b, c>> = <<a, b, c>>
<1>1. Join(<<a>>, 1, <<b, c>>, 2, <<a, b, c>>,
           {a, b, c})
  BY DEF Join
<1> QED BY <1>1, Joined

LEMMA Joined13 ==
  ASSUME NEW a, NEW b, NEW c, NEW d
  PROVE  <<a>> \o <<b, c, d>> = <<a, b, c, d>>
<1>1. Join(<<a>>, 1, <<b, c, d>>, 3, <<a, b, c, d>>,
           {a, b, c, d})
  BY DEF Join
<1> QED BY <1>1, Joined

LEMMA Joined14 ==
  ASSUME NEW a, NEW b, NEW c, NEW d, NEW e
  PROVE  <<a>> \o <<b, c, d, e>> = <<a, b, c, d, e>>
<1>1. Join(<<a>>, 1, <<b, c, d, e>>, 4, <<a, b, c, d, e>>,
           {a, b, c, d, e})
  BY DEF Join
<1> QED BY <1>1, Joined

LEMMA Joined41 ==
  ASSUME NEW a, NEW b, NEW c, NEW d, NEW e
  PROVE  <<a, b, c, d>> \o <<e>> = <<a, b, c, d, e>>
<1>1. Join(<<a, b, c, d>>, 4, <<e>>, 1, <<a, b, c, d, e>>,
           {a, b, c, d, e})
  BY DEF Join
<1> QED BY <1>1, Joined

LEMMA Joined53 ==
  ASSUME NEW a, NEW b, NEW c, NEW d, NEW e, NEW f, NEW g, NEW h
  PROVE  <<a, b, c, d, e>> \o <<f, g, h>> = <<a, b, c, d, e, f, g, h>>
<1>1. Join(<<a, b, c, d, e>>, 5, <<f, g, h>>, 3, <<a, b, c, d, e, f, g, h>>,
           {a, b, c, d, e, f, g, h})
  BY DEF Join
<1> QED BY <1>1, Joined

LEMMA Joined81 ==
  ASSUME NEW a, NEW b, NEW c, NEW d, NEW e, NEW f, NEW g, NEW h, NEW i
  PROVE  <<a, b, c, d, e, f, g, h>> \o <<i>> = <<a, b, c, d, e, f, g, h, i>>
<1>1. Join(<<a, b, c, d, e, f, g, h>>, 8, <<i>>, 1, <<a, b, c, d, e, f, g, h, i>>,
           {a, b, c, d, e, f, g, h, i})
  BY DEF Join
<1> QED BY <1>1, Joined

\* The bytes, as names: their values matter only to EncodeByte, DecodeStep and Expiry.
Zero == "0"
Colon == ":"
Plus == "+"
Percent == "%"
Two == "2"
Three == "3"
Ten == "A"
Eleven == "B"

LEMMA Spelled == Expiry = <<Zero, Colon, Zero, Plus, Zero>>
BY DEF Expiry, Zero, Colon, Plus

\* The expiry, encoded.
Coded == <<Zero, Percent, Three, Ten, Zero, Percent, Two, Eleven, Zero>>

\* One step of percent_decode, given what the rest is decoded to.
DecodeStep(input, rest, i) ==
  IF i > Len(input) THEN <<>>
  ELSE IF input[i] = "%" /\ i + 2 <= Len(input) /\ {input[i + 1], input[i + 2]} \subseteq Hex
  THEN <<Byte(input[i + 1], input[i + 2])>> \o rest[i + 3]
  ELSE <<IF input[i] = "+" THEN " " ELSE input[i]>> \o rest[i + 1]

DecodeFrom(input) ==
  CHOOSE f : f = [i \in 1 .. Len(input) + 1 |-> DecodeStep(input, f, i)]

\* percent_decode is that recursion.
LEMMA Unfold == ASSUME NEW input PROVE percent_decode(input) = DecodeFrom(input)[1]
BY DEF percent_decode, DecodeFrom, DecodeStep

\* What is decoded from each position of Coded on.
Rests == << <<Zero, Colon, Zero, Plus, Zero>>, <<Colon, Zero, Plus, Zero>>,
            <<Three, Ten, Zero, Plus, Zero>>, <<Ten, Zero, Plus, Zero>>, <<Zero, Plus, Zero>>,
            <<Plus, Zero>>, <<Two, Eleven, Zero>>, <<Eleven, Zero>>, <<Zero>>, <<>> >>

\* What each position of Coded is decoded to.
LEMMA CodedSteps ==
  ASSUME NEW rest
  PROVE  /\ DecodeStep(Coded, rest, 10) = <<>>
         /\ DecodeStep(Coded, rest, 9) = <<Zero>> \o rest[10]
         /\ DecodeStep(Coded, rest, 8) = <<Eleven>> \o rest[9]
         /\ DecodeStep(Coded, rest, 7) = <<Two>> \o rest[8]
         /\ DecodeStep(Coded, rest, 6) = <<Plus>> \o rest[9]
         /\ DecodeStep(Coded, rest, 5) = <<Zero>> \o rest[6]
         /\ DecodeStep(Coded, rest, 4) = <<Ten>> \o rest[5]
         /\ DecodeStep(Coded, rest, 3) = <<Three>> \o rest[4]
         /\ DecodeStep(Coded, rest, 2) = <<Colon>> \o rest[5]
         /\ DecodeStep(Coded, rest, 1) = <<Zero>> \o rest[2]
<1> USE DEF Zero, Colon, Plus, Percent, Two, Three, Ten, Eleven
<1>1. /\ Len(Coded) = 9 /\ Coded[1] = Zero /\ Coded[2] = Percent /\ Coded[3] = Three
      /\ Coded[4] = Ten /\ Coded[5] = Zero /\ Coded[6] = Percent /\ Coded[7] = Two
      /\ Coded[8] = Eleven /\ Coded[9] = Zero
  BY DEF Coded
<1>2. /\ Byte(Three, Ten) = Colon /\ Byte(Two, Eleven) = Plus
      /\ {Two, Three, Ten, Eleven} \subseteq Hex
  BY DEF Byte, Hex
<1>3. DecodeStep(Coded, rest, 10) = <<>>
  BY <1>1 DEF DecodeStep
<1>4. DecodeStep(Coded, rest, 9) = <<Zero>> \o rest[10]
  BY <1>1 DEF DecodeStep
<1>5. DecodeStep(Coded, rest, 8) = <<Eleven>> \o rest[9]
  BY <1>1 DEF DecodeStep
<1>6. DecodeStep(Coded, rest, 7) = <<Two>> \o rest[8]
  BY <1>1 DEF DecodeStep
<1>7. DecodeStep(Coded, rest, 6) = <<Plus>> \o rest[9]
  BY <1>1, <1>2 DEF DecodeStep
<1>8. DecodeStep(Coded, rest, 5) = <<Zero>> \o rest[6]
  BY <1>1 DEF DecodeStep
<1>9. DecodeStep(Coded, rest, 4) = <<Ten>> \o rest[5]
  BY <1>1 DEF DecodeStep
<1>10. DecodeStep(Coded, rest, 3) = <<Three>> \o rest[4]
  BY <1>1 DEF DecodeStep
<1>11. DecodeStep(Coded, rest, 2) = <<Colon>> \o rest[5]
  BY <1>1, <1>2 DEF DecodeStep
<1>12. DecodeStep(Coded, rest, 1) = <<Zero>> \o rest[2]
  BY <1>1 DEF DecodeStep
<1> QED BY <1>3, <1>4, <1>5, <1>6, <1>7, <1>8, <1>9, <1>10, <1>11, <1>12

\* The whole: Rests satisfies the recursion, so something does, and what does is Rests.
LEMMA Decoded == percent_decode(Coded) = Expiry
<1> DEFINE D(f) == [i \in 1 .. Len(Coded) + 1 |-> DecodeStep(Coded, f, i)]
<1>1. Len(Coded) = 9
  BY DEF Coded
<1>2. Rests = D(Rests)
  <2>1. /\ Rests[1] = <<Zero, Colon, Zero, Plus, Zero>> /\ Rests[2] = <<Colon, Zero, Plus, Zero>>
        /\ Rests[3] = <<Three, Ten, Zero, Plus, Zero>> /\ Rests[4] = <<Ten, Zero, Plus, Zero>>
        /\ Rests[5] = <<Zero, Plus, Zero>> /\ Rests[6] = <<Plus, Zero>>
        /\ Rests[7] = <<Two, Eleven, Zero>> /\ Rests[8] = <<Eleven, Zero>> /\ Rests[9] = <<Zero>>
        /\ Rests[10] = <<>>
    BY DEF Rests
  <2>2. \A i \in 1 .. 10 : Rests[i] = DecodeStep(Coded, Rests, i)
    <3>1. \A i \in 1 .. 10 : i \in {1, 2, 3, 4, 5, 6, 7, 8, 9, 10}
      OBVIOUS
    <3>2. /\ Rests[9] = <<Zero>> \o Rests[10] /\ Rests[8] = <<Eleven>> \o Rests[9]
          /\ Rests[7] = <<Two>> \o Rests[8] /\ Rests[6] = <<Plus>> \o Rests[9]
          /\ Rests[5] = <<Zero>> \o Rests[6] /\ Rests[4] = <<Ten>> \o Rests[5]
          /\ Rests[3] = <<Three>> \o Rests[4] /\ Rests[2] = <<Colon>> \o Rests[5]
          /\ Rests[1] = <<Zero>> \o Rests[2]
      <4>1. /\ <<Zero>> \o <<>> = <<Zero>> /\ <<Eleven>> \o <<Zero>> = <<Eleven, Zero>>
            /\ <<Two>> \o <<Eleven, Zero>> = <<Two, Eleven, Zero>>
            /\ <<Plus>> \o <<Zero>> = <<Plus, Zero>>
            /\ <<Zero>> \o <<Plus, Zero>> = <<Zero, Plus, Zero>>
            /\ <<Ten>> \o <<Zero, Plus, Zero>> = <<Ten, Zero, Plus, Zero>>
            /\ <<Three>> \o <<Ten, Zero, Plus, Zero>> = <<Three, Ten, Zero, Plus, Zero>>
            /\ <<Colon>> \o <<Zero, Plus, Zero>> = <<Colon, Zero, Plus, Zero>>
            /\ <<Zero>> \o <<Colon, Zero, Plus, Zero>> = <<Zero, Colon, Zero, Plus, Zero>>
        BY Joined10, Joined11, Joined12, Joined13, Joined14
      <4> QED BY <2>1, <4>1
    <3>3. /\ Rests[1] = DecodeStep(Coded, Rests, 1) /\ Rests[2] = DecodeStep(Coded, Rests, 2)
          /\ Rests[3] = DecodeStep(Coded, Rests, 3) /\ Rests[4] = DecodeStep(Coded, Rests, 4)
          /\ Rests[5] = DecodeStep(Coded, Rests, 5) /\ Rests[6] = DecodeStep(Coded, Rests, 6)
          /\ Rests[7] = DecodeStep(Coded, Rests, 7) /\ Rests[8] = DecodeStep(Coded, Rests, 8)
          /\ Rests[9] = DecodeStep(Coded, Rests, 9) /\ Rests[10] = DecodeStep(Coded, Rests, 10)
      BY <2>1, <3>2, CodedSteps
    <3> QED BY <3>1, <3>3
  <2>3. DOMAIN Rests = 1 .. 10 /\ Rests = [i \in 1 .. 10 |-> Rests[i]]
    BY DEF Rests
  <2> QED BY <1>1, <2>2, <2>3
<1>3. PICK f : DecodeFrom(Coded) = f /\ f = D(f)
  BY <1>2 DEF DecodeFrom
<1>4. \A i \in 1 .. 10 : f[i] = DecodeStep(Coded, f, i)
  BY <1>1, <1>3
<1>5. /\ f[10] = DecodeStep(Coded, f, 10) /\ f[9] = DecodeStep(Coded, f, 9)
      /\ f[6] = DecodeStep(Coded, f, 6) /\ f[5] = DecodeStep(Coded, f, 5)
      /\ f[2] = DecodeStep(Coded, f, 2) /\ f[1] = DecodeStep(Coded, f, 1)
  BY <1>4
<1>6. /\ f[10] = <<>> /\ f[9] = <<Zero>> \o f[10]
      /\ f[6] = <<Plus>> \o f[9] /\ f[5] = <<Zero>> \o f[6]
      /\ f[2] = <<Colon>> \o f[5] /\ f[1] = <<Zero>> \o f[2]
  BY <1>5, CodedSteps
<1>7. /\ <<Zero>> \o <<>> = <<Zero>>
      /\ <<Plus>> \o <<Zero>> = <<Plus, Zero>>
      /\ <<Zero>> \o <<Plus, Zero>> = <<Zero, Plus, Zero>>
      /\ <<Colon>> \o <<Zero, Plus, Zero>> = <<Colon, Zero, Plus, Zero>>
      /\ <<Zero>> \o <<Colon, Zero, Plus, Zero>> = <<Zero, Colon, Zero, Plus, Zero>>
  BY Joined10, Joined11, Joined12, Joined13, Joined14
<1>8. f[1] = <<Zero, Colon, Zero, Plus, Zero>>
  BY <1>6, <1>7
<1> QED BY <1>3, <1>8, Unfold, Spelled

\* One step of the concatenation, given what comes before.
FlattenStep(seqs, flat, i) == IF i = 1 THEN seqs[i] ELSE flat[i - 1] \o seqs[i]

FlattenTo(seqs) == CHOOSE f : f = [i \in 1 .. Len(seqs) |-> FlattenStep(seqs, f, i)]

\* For five.
LEMMA FlattenSteps ==
  ASSUME NEW e, NEW f
  PROVE  /\ FlattenStep(e, f, 1) = e[1] /\ FlattenStep(e, f, 2) = f[1] \o e[2]
         /\ FlattenStep(e, f, 3) = f[2] \o e[3] /\ FlattenStep(e, f, 4) = f[3] \o e[4]
         /\ FlattenStep(e, f, 5) = f[4] \o e[5]
<1>1. FlattenStep(e, f, 1) = e[1] /\ FlattenStep(e, f, 2) = f[1] \o e[2]
  BY DEF FlattenStep
<1>2. FlattenStep(e, f, 3) = f[2] \o e[3] /\ FlattenStep(e, f, 4) = f[3] \o e[4]
  BY DEF FlattenStep
<1>3. FlattenStep(e, f, 5) = f[4] \o e[5]
  BY DEF FlattenStep
<1> QED BY <1>1, <1>2, <1>3

\* FlattenSeq is that recursion.
LEMMA UnfoldFlat ==
  ASSUME NEW seqs, Len(seqs) # 0
  PROVE  FlattenSeq(seqs) = FlattenTo(seqs)[Len(seqs)]
BY DEF FlattenSeq, FlattenTo, FlattenStep

\* What is encoded up to each position of the expiry.
Heads == << <<Zero>>, <<Zero, Percent, Three, Ten>>, <<Zero, Percent, Three, Ten, Zero>>,
            <<Zero, Percent, Three, Ten, Zero, Percent, Two, Eleven>>,
            <<Zero, Percent, Three, Ten, Zero, Percent, Two, Eleven, Zero>> >>

LEMMA Encoded == percent_encode(Expiry) = Coded
<1> DEFINE E == [i \in DOMAIN Expiry |-> EncodeByte(Expiry[i])]
           F(f) == [i \in 1 .. Len(E) |-> FlattenStep(E, f, i)]
<1>1. /\ DOMAIN Expiry = 1 .. 5 /\ Expiry[1] = Zero /\ Expiry[2] = Colon /\ Expiry[3] = Zero
      /\ Expiry[4] = Plus /\ Expiry[5] = Zero
  BY Spelled
<1>2. /\ EncodeByte(Zero) = <<Zero>> /\ EncodeByte(Colon) = <<Percent, Three, Ten>>
      /\ EncodeByte(Plus) = <<Percent, Two, Eleven>>
  BY DEF EncodeByte, Zero, Colon, Plus, Percent, Two, Three, Ten, Eleven
<1>3. /\ Len(E) = 5 /\ E[1] = <<Zero>> /\ E[2] = <<Percent, Three, Ten>> /\ E[3] = <<Zero>>
      /\ E[4] = <<Percent, Two, Eleven>> /\ E[5] = <<Zero>>
  BY <1>1, <1>2
<1> HIDE DEF E
<1>4. /\ Heads[1] = <<Zero>> /\ Heads[2] = <<Zero, Percent, Three, Ten>>
      /\ Heads[3] = <<Zero, Percent, Three, Ten, Zero>>
      /\ Heads[4] = <<Zero, Percent, Three, Ten, Zero, Percent, Two, Eleven>>
      /\ Heads[5] = <<Zero, Percent, Three, Ten, Zero, Percent, Two, Eleven, Zero>>
  BY DEF Heads
<1>5. /\ <<Zero>> \o <<Percent, Three, Ten>> = <<Zero, Percent, Three, Ten>>
      /\ <<Zero, Percent, Three, Ten>> \o <<Zero>> = <<Zero, Percent, Three, Ten, Zero>>
      /\ <<Zero, Percent, Three, Ten, Zero>> \o <<Percent, Two, Eleven>>
         = <<Zero, Percent, Three, Ten, Zero, Percent, Two, Eleven>>
      /\ <<Zero, Percent, Three, Ten, Zero, Percent, Two, Eleven>> \o <<Zero>>
         = <<Zero, Percent, Three, Ten, Zero, Percent, Two, Eleven, Zero>>
  BY Joined13, Joined41, Joined53, Joined81
<1>6. Heads = F(Heads)
  <2>1. /\ FlattenStep(E, Heads, 1) = Heads[1] /\ FlattenStep(E, Heads, 2) = Heads[2]
        /\ FlattenStep(E, Heads, 3) = Heads[3] /\ FlattenStep(E, Heads, 4) = Heads[4]
        /\ FlattenStep(E, Heads, 5) = Heads[5]
    <3>1. /\ Heads[1] = E[1] /\ Heads[2] = Heads[1] \o E[2] /\ Heads[3] = Heads[2] \o E[3]
          /\ Heads[4] = Heads[3] \o E[4] /\ Heads[5] = Heads[4] \o E[5]
      BY <1>3, <1>4, <1>5
    <3> QED BY <3>1, FlattenSteps
  <2>2. \A i \in 1 .. 5 : i \in {1, 2, 3, 4, 5}
    OBVIOUS
  <2>3. \A i \in 1 .. 5 : Heads[i] = FlattenStep(E, Heads, i)
    BY <2>1, <2>2
  <2>4. Heads = [i \in 1 .. 5 |-> Heads[i]]
    BY DEF Heads
  <2> QED BY <1>3, <2>3, <2>4
<1>7. PICK f : FlattenTo(E) = f /\ f = F(f)
  BY <1>6 DEF FlattenTo
<1>8. \A i \in 1 .. 5 : f[i] = FlattenStep(E, f, i)
  BY <1>3, <1>7
<1>9. /\ f[1] = FlattenStep(E, f, 1) /\ f[2] = FlattenStep(E, f, 2) /\ f[3] = FlattenStep(E, f, 3)
       /\ f[4] = FlattenStep(E, f, 4) /\ f[5] = FlattenStep(E, f, 5)
  BY <1>8
<1>10. /\ f[1] = E[1] /\ f[2] = f[1] \o E[2] /\ f[3] = f[2] \o E[3] /\ f[4] = f[3] \o E[4]
       /\ f[5] = f[4] \o E[5]
  BY <1>9, FlattenSteps
<1>11. f[5] = Coded
  BY <1>3, <1>5, <1>10 DEF Coded
<1>12. FlattenSeq(E) = Coded
  <2>1. Len(E) = 5 /\ Len(E) # 0
    BY <1>3
  <2>2. FlattenSeq(E) = FlattenTo(E)[Len(E)]
    BY <2>1, UnfoldFlat
  <2> QED BY <1>7, <1>11, <2>1, <2>2
<1> QED BY <1>12 DEF percent_encode, E

\* The command stores the expiry that the server stated.
LEMMA RoundTrip == percent_decode(percent_encode(Expiry)) = Expiry
BY Encoded, Decoded

-----------------------------------------------------------------------------
(* The file *)

\* What a command that is not stale will have saved.
Told(c) == IF c \in Configs THEN [intended EXCEPT !.server = c]
           ELSE [intended EXCEPT !.jwt = c, !.expires = Expiry]

\* One command saves at a time, and nobody else is in time for it.
SaverInv == \A c \in Commands : pc[c] = "write"
              => file = Torn /\ \A d \in Commands \ {c} : pc[d] \in InFlight => d \in stale

CopyInv == \A c \in Commands : pc[c] \in InFlight /\ c \notin stale
             => cfg[c] = IF pc[c] \in {"create", "write"} THEN Told(c) ELSE intended

KeptInv == TypeOK /\ SettingsKept /\ (~disturbed => SaverInv /\ CopyInv)

\* What the steps below use of the types.
LEMMA CommandTypes ==
  /\ Configs \subseteq Commands /\ Logins \subseteq Commands /\ None \notin Commands
  /\ \A c \in Commands : c \in Configs \/ c \in Logins
  /\ \A c \in Configs : c \notin Logins
BY LoginAssumption DEF Commands

LEMMA SettingTypes ==
  /\ Default \in Settings
  /\ \A s \in Settings : /\ \A c \in Configs : [s EXCEPT !.server = c] \in Settings
                         /\ \A c \in Logins : [s EXCEPT !.jwt = c, !.expires = Expiry] \in Settings
                         /\ Whole(s) # Torn /\ Whole(s) # Absent /\ Whole(s).settings = s
  /\ Torn # Absent
BY DEF Default, Settings, Whole, Torn, Absent

\* What has been told to a command is not the default.
LEMMA ToldSomething ==
  ASSUME TypeOK, NEW c \in Commands
  PROVE  Told(c) \in Settings /\ Told(c) # Default
<1>1. CASE c \in Configs
  <2>1. Told(c) = [intended EXCEPT !.server = c] /\ Told(c) \in Settings
    BY <1>1, SettingTypes DEF Told, TypeOK
  <2>2. Told(c).server = c
    BY <2>1 DEF TypeOK, Settings
  <2> QED BY <2>1, <2>2, CommandTypes DEF Default
<1>2. CASE c \in Logins
  <2>1. Told(c) = [intended EXCEPT !.jwt = c, !.expires = Expiry] /\ Told(c) \in Settings
    BY <1>2, SettingTypes, CommandTypes DEF Told, TypeOK
  <2>2. Told(c).jwt = c
    BY <2>1 DEF TypeOK, Settings
  <2>3. Default.jwt = None /\ c # None
    BY CommandTypes DEF Default
  <2> QED BY <2>1, <2>2, <2>3
<1> QED BY <1>1, <1>2, CommandTypes

-----------------------------------------------------------------------------
(* The steps *)

\* A command loads what was intended, or fails.
LEMMA LoadKeeps ==
  ASSUME KeptInv, NEW c \in Commands, Load(c)
  PROVE  KeptInv'
<1>1. /\ file' = file /\ page' = page /\ backlog' = backlog /\ line' = line
      /\ intended' = intended /\ stale' = stale /\ disturbed' = disturbed
      /\ pc[c] = "load"
  BY DEF Load, Goes, browserVars, historyVars
<1>2. CASE file # Torn
  <2>1. /\ pc' = [pc EXCEPT ![c] = IF c \in Configs THEN "prompt" ELSE "listen"]
        /\ cfg' = [cfg EXCEPT ![c] = IF file = Absent THEN Default ELSE file.settings]
    BY <1>2 DEF Load, Goes
  <2>2. (IF file = Absent THEN Default ELSE file.settings) \in Settings
    BY <1>2, SettingTypes DEF KeptInv, TypeOK
  <2>3. TypeOK'
    BY <1>1, <2>1, <2>2 DEF KeptInv, TypeOK, InFlight
  <2>4. /\ \A d \in Commands : d # c => pc'[d] = pc[d] /\ cfg'[d] = cfg[d]
        /\ pc'[c] \in {"prompt", "listen"}
        /\ cfg'[c] = IF file = Absent THEN Default ELSE file.settings
    BY <2>1 DEF KeptInv, TypeOK
  <2>5. SettingsKept'
    BY <1>1, <2>4 DEF KeptInv, SettingsKept
  <2>6. ASSUME ~disturbed
        PROVE  SaverInv' /\ CopyInv'
    <3>1. \A d \in Commands : pc[d] # "write"
      BY <1>2, <2>6 DEF KeptInv, SaverInv
    <3>2. file = IF intended = Default THEN Absent ELSE Whole(intended)
      BY <2>6, <3>1 DEF KeptInv, SettingsKept
    <3>3. cfg'[c] = intended
      BY <2>4, <3>2, SettingTypes DEF KeptInv, TypeOK
    <3>4. SaverInv'
      BY <2>4, <3>1 DEF SaverInv
    <3>5. \A d \in Commands : Told(d)' = Told(d)
      BY <1>1 DEF Told
    <3>6. CopyInv'
      BY <1>1, <2>4, <2>6, <3>3, <3>5 DEF KeptInv, CopyInv
    <3> QED BY <3>4, <3>6
  <2> QED BY <1>1, <2>3, <2>5, <2>6 DEF KeptInv
<1>3. CASE file = Torn
  <2>1. pc' = [pc EXCEPT ![c] = "failed"] /\ cfg' = cfg
    BY <1>3 DEF Load, Goes
  <2>2. TypeOK'
    BY <1>1, <2>1 DEF KeptInv, TypeOK, Over
  <2>3. \A d \in Commands : (d # c => pc'[d] = pc[d]) /\ Told(d)' = Told(d)
    BY <1>1, <2>1 DEF KeptInv, TypeOK, Told
  <2>4. pc'[c] = "failed" /\ "failed" \notin InFlight
    BY <2>1 DEF KeptInv, TypeOK, InFlight
  <2>5. SettingsKept'
    BY <1>1, <2>3, <2>4 DEF KeptInv, SettingsKept
  <2>6. ~disturbed => SaverInv' /\ CopyInv'
    BY <1>1, <2>1, <2>3, <2>4 DEF KeptInv, SaverInv, CopyInv
  <2> QED BY <1>1, <2>2, <2>5, <2>6 DEF KeptInv
<1> QED BY <1>2, <1>3

\* A save that begins makes all others stale.
LEMMA TruncateKeeps ==
  ASSUME KeptInv, NEW c \in Commands, Truncate(c)
  PROVE  KeptInv'
<1>1. /\ page' = page /\ backlog' = backlog /\ line' = line /\ cfg' = cfg
      /\ intended' = intended /\ disturbed' = disturbed /\ file' = Torn
      /\ pc[c] = "create" /\ pc' = [pc EXCEPT ![c] = "write"]
      /\ stale' = stale \cup {d \in Commands \ {c} : pc[d] \in InFlight}
  BY DEF Truncate, Goes, browserVars
<1>2. TypeOK'
  BY <1>1 DEF KeptInv, TypeOK, InFlight
<1>3. \A d \in Commands : pc'[d] = IF d = c THEN "write" ELSE pc[d]
  BY <1>1 DEF KeptInv, TypeOK
<1>4. SettingsKept'
  BY <1>3 DEF SettingsKept
<1>5. ASSUME ~disturbed
      PROVE  SaverInv'
  <2>1. \A d \in Commands : d # c /\ pc[d] = "write" => c \in stale
    BY <1>1, <1>5 DEF KeptInv, SaverInv, InFlight
  <2>2. \A d \in Commands \ {c} : pc'[d] \in InFlight => d \in stale'
    BY <1>1, <1>3
  <2> QED BY <1>1, <1>3, <2>1, <2>2 DEF SaverInv
<1>6. \A d \in Commands : Told(d)' = Told(d)
  BY <1>1 DEF Told
<1>7. ASSUME ~disturbed
      PROVE  CopyInv'
  <2>1. c \notin stale => cfg[c] = Told(c)
    BY <1>1, <1>7 DEF KeptInv, CopyInv, InFlight
  <2> QED BY <1>1, <1>3, <1>6, <2>1 DEF CopyInv
<1> QED BY <1>1, <1>2, <1>4, <1>5, <1>7 DEF KeptInv

\* What is written is what was told, by the one command that may.
LEMMA WriteKeeps ==
  ASSUME KeptInv, NEW c \in Commands, Write(c)
  PROVE  KeptInv'
<1>1. /\ page' = page /\ backlog' = backlog /\ line' = line /\ cfg' = cfg /\ stale' = stale
      /\ pc[c] = "write" /\ pc' = [pc EXCEPT ![c] = "done"]
      /\ file' \in {Whole(cfg[c])} \cup (IF file = Torn THEN {} ELSE {Torn})
      /\ intended' = Told(c)
  BY DEF Write, Goes, browserVars, Told
<1>2. disturbed' \in BOOLEAN /\ (~disturbed' => ~disturbed /\ c \notin stale)
  <2>1. disturbed' = (disturbed \/ c \in stale)
    BY DEF Write
  <2> QED BY <2>1, Zenon
<1>3. intended' \in Settings /\ intended' # Default
  BY <1>1, ToldSomething DEF KeptInv
<1>4. TypeOK'
  <2>1. file' \in {Absent, Torn} \cup {Whole(s) : s \in Settings}
    BY <1>1 DEF KeptInv, TypeOK
  <2> QED BY <1>1, <1>2, <1>3, <2>1 DEF KeptInv, TypeOK, Over
<1>5. \A d \in Commands : pc'[d] = IF d = c THEN "done" ELSE pc[d]
  BY <1>1 DEF KeptInv, TypeOK
<1>6. ASSUME ~disturbed'
      PROVE  /\ file' = Whole(Told(c))
             /\ \A d \in Commands : pc'[d] \in InFlight => d \in stale
             /\ \A d \in Commands : pc'[d] # "write"
  <2>1. ~disturbed /\ c \notin stale
    BY <1>2, <1>6
  <2>2. file = Torn /\ \A d \in Commands \ {c} : pc[d] \in InFlight => d \in stale
    BY <1>1, <2>1 DEF KeptInv, SaverInv
  <2>3. cfg[c] = Told(c)
    BY <1>1, <2>1 DEF KeptInv, CopyInv, InFlight
  <2>4. \A d \in Commands \ {c} : pc[d] # "write"
    BY <1>1, <2>1 DEF KeptInv, SaverInv, InFlight
  <2>5. "done" \notin InFlight /\ "done" # "write"
    BY DEF InFlight
  <2> QED BY <1>1, <1>5, <2>2, <2>3, <2>4, <2>5
<1>7. SettingsKept'
  BY <1>1, <1>3, <1>6 DEF SettingsKept
<1>8. ~disturbed' => SaverInv' /\ CopyInv'
  BY <1>1, <1>6 DEF SaverInv, CopyInv
<1> QED BY <1>4, <1>7, <1>8 DEF KeptInv

\* The steps before a save, of the command and of the browser.
LEMMA AnswerKeeps ==
  ASSUME KeptInv, NEW c \in Configs, Answer(c)
  PROVE  KeptInv'
<1>1. /\ file' = file /\ page' = page /\ backlog' = backlog /\ line' = line
      /\ intended' = intended /\ stale' = stale /\ disturbed' = disturbed
      /\ pc[c] = "prompt" /\ pc' = [pc EXCEPT ![c] = "create"]
      /\ cfg' = [cfg EXCEPT ![c].server = c] /\ c \in Commands
  BY CommandTypes DEF Answer, Goes, browserVars, historyVars
<1>2. /\ \A d \in Commands : d # c => pc'[d] = pc[d] /\ cfg'[d] = cfg[d]
      /\ pc'[c] = "create" /\ cfg'[c] = [cfg[c] EXCEPT !.server = c]
  BY <1>1 DEF KeptInv, TypeOK
<1>3. TypeOK'
  <2>1. [cfg[c] EXCEPT !.server = c] \in Settings
    BY <1>1, SettingTypes DEF KeptInv, TypeOK
  <2>2. cfg' \in [Commands -> Settings]
    BY <1>1, <2>1 DEF KeptInv, TypeOK
  <2> QED BY <1>1, <2>2 DEF KeptInv, TypeOK, InFlight
<1>4. SettingsKept'
  BY <1>1, <1>2 DEF KeptInv, SettingsKept
<1>5. \A d \in Commands : Told(d)' = Told(d)
  BY <1>1 DEF Told
<1>6. ASSUME ~disturbed
      PROVE  SaverInv' /\ CopyInv'
  <2>1. SaverInv'
    BY <1>1, <1>2, <1>6 DEF KeptInv, SaverInv, InFlight
  <2>2. c \notin stale => cfg'[c] = Told(c)
    BY <1>1, <1>2, <1>6 DEF KeptInv, CopyInv, InFlight, Told
  <2> QED BY <1>1, <1>2, <1>5, <1>6, <2>1, <2>2 DEF KeptInv, CopyInv
<1> QED BY <1>1, <1>3, <1>4, <1>6 DEF KeptInv

LEMMA CallbackKeeps ==
  ASSUME KeptInv, NEW c \in Logins, line[c] = "callback", ReadCallback(c)
  PROVE  KeptInv'
<1>1. /\ file' = file /\ page' = page /\ backlog' = backlog /\ line' = line
      /\ intended' = intended /\ stale' = stale /\ disturbed' = disturbed
      /\ pc[c] = "read" /\ pc' = [pc EXCEPT ![c] = "create"]
      /\ cfg' = [cfg EXCEPT ![c].jwt = c, ![c].expires = Expiry]
      /\ c \in Commands /\ c \notin Configs
  BY CommandTypes, RoundTrip DEF ReadCallback, Goes, browserVars, historyVars
<1>2. /\ \A d \in Commands : d # c => pc'[d] = pc[d] /\ cfg'[d] = cfg[d]
      /\ pc'[c] = "create" /\ cfg'[c] = [cfg[c] EXCEPT !.jwt = c, !.expires = Expiry]
  BY <1>1 DEF KeptInv, TypeOK
<1>3. TypeOK'
  <2>1. [cfg[c] EXCEPT !.jwt = c, !.expires = Expiry] \in Settings
    BY <1>1, SettingTypes DEF KeptInv, TypeOK
  <2>2. cfg' \in [Commands -> Settings]
    BY <1>1, <2>1 DEF KeptInv, TypeOK
  <2> QED BY <1>1, <2>2 DEF KeptInv, TypeOK, InFlight
<1>4. SettingsKept'
  BY <1>1, <1>2 DEF KeptInv, SettingsKept
<1>5. \A d \in Commands : Told(d)' = Told(d)
  BY <1>1 DEF Told
<1>6. ASSUME ~disturbed
      PROVE  SaverInv' /\ CopyInv'
  <2>1. SaverInv'
    BY <1>1, <1>2, <1>6 DEF KeptInv, SaverInv, InFlight
  <2>2. c \notin stale => cfg'[c] = Told(c)
    BY <1>1, <1>2, <1>6 DEF KeptInv, CopyInv, InFlight, Told
  <2> QED BY <1>1, <1>2, <1>5, <1>6, <2>1, <2>2 DEF KeptInv, CopyInv
<1> QED BY <1>1, <1>3, <1>4, <1>6 DEF KeptInv

\* A step that changes neither the file nor a copy, and brings no command to a save.
Elsewhere == /\ file' = file /\ cfg' = cfg /\ intended' = intended /\ stale' = stale
             /\ \A d \in Commands :
                  \/ pc'[d] = pc[d]
                  \/ pc'[d] \in Over /\ (pc[d] = "write" => disturbed')
                  \/ pc'[d] = "read" /\ pc[d] = "listen"
             /\ disturbed => disturbed'

LEMMA ElsewhereKeeps ==
  ASSUME KeptInv, TypeOK', Elsewhere
  PROVE  KeptInv'
<1>1. \A d \in Commands : Told(d)' = Told(d)
  BY DEF Told, Elsewhere
<1>2. ASSUME ~disturbed'
      PROVE  /\ ~disturbed
             /\ \A d \in Commands : pc'[d] = "write" <=> pc[d] = "write"
             /\ \A d \in Commands : pc'[d] \in InFlight =>
                  /\ pc[d] \in InFlight
                  /\ pc'[d] \in {"create", "write"} <=> pc[d] \in {"create", "write"}
  BY <1>2 DEF Elsewhere, Over, InFlight
<1>3. SettingsKept'
  BY <1>2 DEF KeptInv, SettingsKept, Elsewhere
<1>4. ~disturbed' => SaverInv' /\ CopyInv'
  BY <1>1, <1>2 DEF KeptInv, SaverInv, CopyInv, Elsewhere
<1> QED BY <1>3, <1>4 DEF KeptInv

LEMMA OtherSteps ==
  ASSUME TypeOK, NEW c \in Logins,
         \/ AcceptCallback(c) \/ TimeOut(c) \/ (ReadCallback(c) /\ line[c] # "callback")
         \/ OpenPage(c) \/ Submit(c) \/ Connect(c) \/ CloseSilent(c)
  PROVE  TypeOK' /\ Elsewhere
<1> DEFINE Kinds == {"callback", "other", "silent"}
<1>1. c \in Commands
  BY CommandTypes
<1>2. CASE AcceptCallback(c)
  <2>1. /\ backlog[c] # <<>> /\ pc[c] = "listen" /\ pc' = [pc EXCEPT ![c] = "read"]
        /\ line' = [line EXCEPT ![c] = Head(backlog[c])]
        /\ backlog' = [backlog EXCEPT ![c] = Tail(backlog[c])]
        /\ UNCHANGED <<file, cfg, page, intended, stale, disturbed>>
    BY <1>2 DEF AcceptCallback, Goes, historyVars, TypeOK
  <2>2. Head(backlog[c]) \in Kinds /\ Tail(backlog[c]) \in Seq(Kinds)
    BY <2>1, HeadTailProperties DEF TypeOK
  <2>3. TypeOK'
    BY <2>1, <2>2 DEF TypeOK, InFlight
  <2>4. Elsewhere
    BY <1>1, <2>1 DEF TypeOK, Elsewhere
  <2> QED BY <2>3, <2>4
<1>3. CASE TimeOut(c)
  BY <1>1, <1>3 DEF TimeOut, Goes, browserVars, historyVars, TypeOK, Elsewhere, Over
<1>4. CASE ReadCallback(c) /\ line[c] # "callback"
  BY <1>1, <1>4 DEF ReadCallback, Goes, browserVars, historyVars, TypeOK, Elsewhere, Over
<1>5. CASE OpenPage(c)
  BY <1>5 DEF OpenPage, historyVars, TypeOK, Elsewhere
<1>6. CASE Submit(c)
  <2>1. UNCHANGED <<file, pc, cfg, line, intended, stale, disturbed>>
    BY <1>6 DEF Submit, historyVars
  <2>2. page' \in [Logins -> {"none", "form", "redirected", "refused"}]
    BY <1>6 DEF Submit, TypeOK
  <2>3. backlog' \in [Logins -> Seq(Kinds)]
    <3>1. Append(backlog[c], "callback") \in Seq(Kinds)
      BY DEF TypeOK
    <3> QED BY <1>6, <3>1 DEF Submit, TypeOK
  <2> QED BY <2>1, <2>2, <2>3 DEF TypeOK, Elsewhere
<1>7. CASE Connect(c)
  <2>1. UNCHANGED <<file, pc, cfg, page, line, intended, stale, disturbed>>
    BY <1>7 DEF Connect, historyVars
  <2>2. backlog' \in [Logins -> Seq(Kinds)]
    <3>1. <<"other">> \in Seq(Kinds) /\ <<"silent">> \in Seq(Kinds)
      OBVIOUS
    <3> QED BY <1>7, <3>1 DEF Connect, TypeOK
  <2> QED BY <2>1, <2>2 DEF TypeOK, Elsewhere
<1>8. CASE CloseSilent(c)
  BY <1>8 DEF CloseSilent, browserVars, historyVars, TypeOK, Elsewhere
<1> QED BY <1>2, <1>3, <1>4, <1>5, <1>6, <1>7, <1>8

LEMMA KillStep ==
  ASSUME TypeOK, NEW c \in Commands, Kill(c)
  PROVE  TypeOK' /\ Elsewhere
<1>1. disturbed' \in BOOLEAN /\ (disturbed => disturbed') /\ (pc[c] = "write" => disturbed')
  <2>1. disturbed' = (disturbed \/ pc[c] = "write")
    BY DEF Kill
  <2> QED BY <2>1, Zenon
<1>2. /\ UNCHANGED <<file, cfg, page, backlog, line, intended, stale>>
      /\ pc' = [pc EXCEPT ![c] = "killed"]
  BY DEF Kill, browserVars
<1> QED BY <1>1, <1>2 DEF TypeOK, Elsewhere, Over

-----------------------------------------------------------------------------
(* The theorems *)

LEMMA StartKept == Init => KeptInv
<1> SUFFICES ASSUME Init PROVE KeptInv
  OBVIOUS
<1>1. TypeOK
  BY SettingTypes, CommandTypes, EmptySeq DEF Init, TypeOK
<1>2. SettingsKept /\ SaverInv /\ CopyInv
  BY DEF Init, SettingsKept, SaverInv, CopyInv, InFlight
<1> QED BY <1>1, <1>2 DEF KeptInv

LEMMA NextKept ==
  ASSUME KeptInv, [Next]_vars
  PROVE  KeptInv'
<1>1. \A c \in Commands : Load(c) \/ Save(c) \/ Kill(c) => KeptInv'
  BY LoadKeeps, TruncateKeeps, WriteKeeps, KillStep, ElsewhereKeeps DEF Save, KeptInv
<1>2. \A c \in Configs : Answer(c) => KeptInv'
  BY AnswerKeeps
<1>3. \A c \in Logins : ReadCallback(c) /\ line[c] = "callback" => KeptInv'
  BY CallbackKeeps
<1>4. ASSUME NEW c \in Logins,
             \/ AcceptCallback(c) \/ TimeOut(c) \/ (ReadCallback(c) /\ line[c] # "callback")
             \/ OpenPage(c) \/ Submit(c) \/ Connect(c) \/ CloseSilent(c)
      PROVE  KeptInv'
  BY <1>4, OtherSteps, ElsewhereKeeps DEF KeptInv
<1>5. \A c \in Logins :
        RunLogin(c) \/ OpenPage(c) \/ Submit(c) \/ Connect(c) \/ CloseSilent(c) => KeptInv'
  BY <1>3, <1>4 DEF RunLogin
<1>6. CASE UNCHANGED vars
  <2>1. TypeOK' /\ Elsewhere
    BY <1>6 DEF KeptInv, TypeOK, Elsewhere, vars, browserVars, historyVars
  <2> QED BY <2>1, ElsewhereKeeps
<1> QED BY <1>1, <1>2, <1>5, <1>6 DEF Next

\* A command that nobody has overtaken holds the settings as they were intended.
THEOREM Invariance == Spec => []KeptInv
<1>1. Init => KeptInv
  BY StartKept
<1>2. KeptInv /\ [Next]_vars => KeptInv'
  BY NextKept
<1> QED BY <1>1, <1>2, PTL DEF Spec

\* The file holds what its commands were told, unless two of them overlapped or one was
\* killed while it saved (run_config, run_login, save).
THEOREM SettingsSafe == Spec => []SettingsKept
<1>1. KeptInv => SettingsKept
  BY DEF KeptInv
<1> QED BY <1>1, Invariance, PTL
=============================================================================
