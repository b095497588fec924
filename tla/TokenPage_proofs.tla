-------------------------- MODULE TokenPage_proofs --------------------------
(***************************************************************************)
(* Proofs about the token page, for any number of secrets and prefixes.    *)
(*                                                                         *)
(* What the page shows in the end depends on the answers that are still on *)
(* their way.  TokenInv says of each of them what it may still change.     *)
(***************************************************************************)
EXTENDS TokenPage, WellFoundedInduction, SequenceTheorems, TLAPS

\* The tokens in the store, the one a createToken was answered with, and those of
\* a list.
Held == {store[n] : n \in DOMAIN store}
Created == {t \in Tokens : create = Answered(t)}
Shown(list_) == {list_[n].token : n \in DOMAIN list_}

\* No answer was lost or crossed, no restart, and no two secrets share their prefix.
Clean == ~strayed /\ ~restarted /\ ~(\E t \in used : Alike(t))

\* A token is pushed once, and revoked after that.
StoreInv == /\ \A m, n \in DOMAIN store : store[m] = store[n] => m = n
            /\ Held \subseteq used
            /\ revoked \subseteq Held

\* A row that is shown as revoked has a reason.
Reason(t) == t \in revoked \/ Alike(t) \/ restarted
Sound(list_) == \A n \in DOMAIN list_ : list_[n].revoked => Reason(list_[n].token)

\* What any answer tells is true of the server, unless it was restarted.
AnswerInv ==
  /\ Sound(rows)
  /\ load.state = "answered" => Sound(load.answer)
  /\ ~restarted => /\ Shown(rows) \subseteq Held
                   /\ Created \subseteq Held
                   /\ load.state = "answered" => Shown(load.answer) \subseteq Held
                   /\ \A i \in Ids : revoking[i] = "revoked" => \E t \in revoked : id[t] = i

\* A token that is to be put in front of the rows is not in them, nor revoked.
CreatedIsNew == Created \cap (Shown(rows) \cup revoked) = {}

\* With the answers on their way the rows are the store.
NothingMissing ==
  /\ Shown(rows) \cup Created = Held
  /\ Len(store) = Len(rows) + (IF create.state = "answered" THEN 1 ELSE 0)
  /\ \A n \in DOMAIN rows : rows[n].token \in revoked
       => rows[n].revoked \/ revoking[id[rows[n].token]] = "revoked"

\* What is missing in the rows, when nothing strayed, is on its way: a new token in the
\* answer of its createToken, a revocation in that of its revokeToken.
CleanInv ==
  Clean =>
    /\ load.state = "answered" => load.answer = Stored
    /\ \A i \in Ids : revoking[i] # "no" => \E t \in Held \ Created : id[t] = i
    /\ CreatedIsNew
    /\ load = Over => NothingMissing

Request == {Unsent, Sent, Over} \cup {Answered(answer) : answer \in Seq(Row)}

TokenInv == /\ TypeOK /\ load \in Request
            /\ StoreInv /\ AnswerInv /\ CleanInv
-----------------------------------------------------------------------------
(* Sequences *)

\* A set of naturals has a least element: what RevokeFirst relies on.
LEMMA LeastElement ==
  ASSUME NEW S, S \subseteq Nat, S # {}
  PROVE  \E n \in S : \A m \in S : n <= m
<1> DEFINE Less == {ss \in Nat \X Nat : ss[1] < ss[2]}
<1>1. IsWellFoundedOn(Less, Nat)
  BY NatLessThanWellFounded DEF OpToRel
<1>2. PICK n \in S : \A m \in S : ~(<<m, n>> \in Less)
  <2> HIDE DEF Less
  <2> QED BY <1>1, WFMin
<1>3. \A m \in S : ~(m < n)
  <2> SUFFICES ASSUME NEW m \in S, m < n PROVE FALSE
    OBVIOUS
  <2>1. <<m, n>> \in Nat \X Nat
    OBVIOUS
  <2>2. <<m, n>>[1] < <<m, n>>[2]
    OBVIOUS
  <2> QED BY <1>2, <2>1, <2>2
<1> QED BY <1>3

\* revokeToken finds a token with the id it was given, when there is one.
LEMMA FirstMatches ==
  ASSUME TypeOK, NEW i, Matching(i) # {}
  PROVE  /\ First(Matching(i)) \in DOMAIN store
         /\ store[First(Matching(i))] \in Held
         /\ id[store[First(Matching(i))]] = i
<1>1. Matching(i) \subseteq DOMAIN store /\ Matching(i) \subseteq Nat
  BY DEF TypeOK, Matching
<1>2. \E n \in Matching(i) : \A m \in Matching(i) : n <= m
  BY <1>1, LeastElement
<1>3. First(Matching(i)) \in Matching(i)
  BY <1>2 DEF First
<1> QED BY <1>3 DEF Matching, Held

\* What getTokens answers with lists the tokens of the store, in their order.
LEMMA StoredList ==
  ASSUME TypeOK
  PROVE  /\ Stored \in Seq(Row) /\ Len(Stored) = Len(store)
         /\ DOMAIN Stored = DOMAIN store
         /\ \A n \in DOMAIN store : /\ Stored[n].token = store[n]
                                    /\ Stored[n].revoked <=> store[n] \in revoked
         /\ Shown(Stored) = Held
<1>1. store \in [1..Len(store) -> Tokens] /\ DOMAIN store = 1..Len(store) /\ Len(store) \in Nat
  BY LenProperties DEF TypeOK
<1>2. Stored \in [1..Len(store) -> Row]
  BY <1>1 DEF Stored, Row
<1>3. Stored \in Seq(Row) /\ Len(Stored) = Len(store) /\ DOMAIN Stored = DOMAIN store
  BY <1>1, <1>2, SeqDef, LenProperties
<1>4. \A n \in DOMAIN store : /\ Stored[n].token = store[n]
                              /\ Stored[n].revoked <=> store[n] \in revoked
  BY DEF Stored
<1>5. Shown(Stored) = Held
  BY <1>3, <1>4 DEF Shown, Held
<1> QED BY <1>3, <1>4, <1>5

\* The store with a token appended.
LEMMA PushedStore ==
  ASSUME TypeOK, NEW t \in Tokens, store' = Append(store, t)
  PROVE  /\ store' \in Seq(Tokens)
         /\ Len(store) \in Nat /\ Len(store') = Len(store) + 1
         /\ DOMAIN store = 1..Len(store) /\ DOMAIN store' = 1..(Len(store) + 1)
         /\ \A n \in DOMAIN store : store'[n] = store[n]
         /\ store'[Len(store')] = t
         /\ Held' = Held \cup {t}
<1>1. /\ store' \in Seq(Tokens)
      /\ Len(store) \in Nat /\ Len(store') = Len(store) + 1
      /\ DOMAIN store = 1..Len(store) /\ DOMAIN store' = 1..(Len(store) + 1)
      /\ \A n \in DOMAIN store : store'[n] = store[n]
      /\ store'[Len(store')] = t
  BY LenProperties DEF TypeOK
<1>2. Held' \subseteq Held \cup {t}
  BY <1>1 DEF Held
<1>3. Held \cup {t} \subseteq Held'
  BY <1>1 DEF Held
<1> QED BY <1>1, <1>2, <1>3

\* The rows with one put in front.
LEMMA PrependedRow ==
  ASSUME NEW list_ \in Seq(Row), NEW row \in Row
  PROVE  /\ <<row>> \o list_ \in Seq(Row)
         /\ Len(<<row>> \o list_) = Len(list_) + 1
         /\ \A n \in DOMAIN (<<row>> \o list_) :
              \/ (<<row>> \o list_)[n] = row
              \/ \E m \in DOMAIN list_ : (<<row>> \o list_)[n] = list_[m]
         /\ Shown(<<row>> \o list_) = {row.token} \cup Shown(list_)
<1> DEFINE longer == <<row>> \o list_
<1>1. <<row>> \in Seq(Row) /\ Len(<<row>>) = 1 /\ <<row>>[1] = row
  OBVIOUS
<1>2. Len(list_) \in Nat /\ DOMAIN list_ = 1..Len(list_)
  BY LenProperties
<1>3. /\ longer \in Seq(Row) /\ Len(longer) = Len(list_) + 1
      /\ \A n \in 1..(Len(list_) + 1) : longer[n] = IF n <= 1 THEN row ELSE list_[n - 1]
  BY <1>1, <1>2, ConcatProperties
<1>4. DOMAIN longer = 1..(Len(list_) + 1)
  BY <1>3, LenProperties
<1> HIDE DEF longer
<1>5. \A n \in DOMAIN longer : longer[n] = row \/ \E m \in DOMAIN list_ : longer[n] = list_[m]
  BY <1>2, <1>3, <1>4
<1>6. longer[1] = row /\ \A m \in DOMAIN list_ : m + 1 \in DOMAIN longer /\ longer[m + 1] = list_[m]
  BY <1>2, <1>3, <1>4
<1>7. Shown(longer) = {row.token} \cup Shown(list_)
  <2>1. Shown(longer) \subseteq {row.token} \cup Shown(list_)
    BY <1>5 DEF Shown
  <2>2. row.token \in Shown(longer)
    BY <1>2, <1>4, <1>6 DEF Shown
  <2>3. Shown(list_) \subseteq Shown(longer)
    BY <1>6 DEF Shown
  <2> QED BY <2>1, <2>2, <2>3
<1> QED BY <1>3, <1>5, <1>7 DEF longer

\* The rows after a revocation was answered: the same tokens, those with the id revoked.
LEMMA RevokedRows ==
  ASSUME TypeOK, NEW i \in Ids, ApplyRevoke(i)
  PROVE  /\ rows' \in Seq(Row) /\ Len(rows') = Len(rows) /\ DOMAIN rows' = DOMAIN rows
         /\ \A n \in DOMAIN rows :
              /\ rows'[n].token = rows[n].token
              /\ rows'[n].revoked = IF id[rows[n].token] = i THEN TRUE ELSE rows[n].revoked
         /\ Shown(rows)' = Shown(rows)
<1>1. rows \in [1..Len(rows) -> Row] /\ DOMAIN rows = 1..Len(rows) /\ Len(rows) \in Nat
  BY LenProperties DEF TypeOK
<1>2. \A n \in DOMAIN rows :
        /\ rows'[n] \in Row
        /\ rows'[n].token = rows[n].token
        /\ rows'[n].revoked = IF id[rows[n].token] = i THEN TRUE ELSE rows[n].revoked
  BY <1>1 DEF ApplyRevoke, Row
<1>3. rows' \in [1..Len(rows) -> Row]
  BY <1>1, <1>2 DEF ApplyRevoke
<1>4. rows' \in Seq(Row) /\ Len(rows') = Len(rows) /\ DOMAIN rows' = DOMAIN rows
  BY <1>1, <1>3, SeqDef, LenProperties
<1>5. Shown(rows)' = Shown(rows)
  BY <1>2, <1>4 DEF Shown
<1> QED BY <1>2, <1>4, <1>5

-----------------------------------------------------------------------------
(* Types *)

\* What a push or a revocation does to the server, whoever asked for it.
LEMMA PushKeepsTypes ==
  ASSUME TypeOK, Push
  PROVE  /\ store' \in Seq(Tokens) /\ used' \subseteq Tokens
         /\ id' = id /\ revoked' = revoked /\ used \subseteq used' /\ Held \subseteq Held'
         /\ store'[Len(store')] \in Tokens
<1>1. PICK t \in Tokens \ used : used' = used \cup {t} /\ store' = Append(store, t)
                                 /\ id' = id /\ revoked' = revoked
  BY DEF Push
<1> QED BY <1>1, PushedStore DEF TypeOK

LEMMA RevocationKeepsTypes ==
  ASSUME TypeOK, NEW i, Matching(i) # {}, RevokeFirst(i)
  PROVE  /\ revoked' \subseteq Tokens /\ revoked \subseteq revoked'
         /\ \E t \in Held : id[t] = i /\ revoked' = revoked \cup {t}
<1>1. store[First(Matching(i))] \in Held /\ id[store[First(Matching(i))]] = i
  BY FirstMatches
<1>2. Held \subseteq Tokens
  BY LenProperties DEF TypeOK, Held
<1> QED BY <1>1, <1>2 DEF RevokeFirst, TypeOK

\* Every variable keeps its type.
LEMMA TypesKept ==
  ASSUME TypeOK, load \in Request, [Next]_vars
  PROVE  TypeOK' /\ (load \in Request)'
<1> USE DEF Unsent, Sent, Over, Answered, Request
<1>1. CASE list
  BY <1>1, StoredList DEF list, TypeOK, serverVars
<1>2. CASE CreateForPage
  BY <1>2, PushKeepsTypes DEF CreateForPage, TypeOK
<1>3. CASE Elsewhere
  <2>1. UNCHANGED <<pageVars, restarted>> /\ strayed' \in BOOLEAN
    BY <1>3 DEF Elsewhere, TypeOK
  <2>2. CASE Push
    BY <2>1, <2>2, PushKeepsTypes DEF TypeOK, pageVars
  <2>3. CASE \E i \in Ids : Matching(i) # {} /\ RevokeFirst(i) /\ UNCHANGED <<id, store, used>>
    BY <2>1, <2>3, RevocationKeepsTypes DEF TypeOK, pageVars
  <2> QED BY <1>3, <2>2, <2>3 DEF Elsewhere
<1>4. CASE Restart
  BY <1>4, EmptySeq DEF Restart, TypeOK, pageVars
<1>5. CASE Mount
  BY <1>5 DEF Mount, PageStep, TypeOK, serverVars
<1>6. CASE ApplyLoad
  BY <1>6 DEF ApplyLoad, PageStep, TypeOK, serverVars
<1>7. CASE ClickCreate
  BY <1>7 DEF ClickCreate, PageStep, TypeOK, serverVars
<1>8. CASE ApplyCreate
  <2>1. create.answer \in Tokens
    BY <1>8 DEF ApplyCreate, TypeOK
  <2>2. rows' \in Seq(Row)
    BY <1>8, <2>1, PrependedRow DEF ApplyCreate, TypeOK, Row
  <2> QED BY <1>8, <2>2 DEF ApplyCreate, PageStep, TypeOK, serverVars
<1>9. CASE CreateFails
  BY <1>9 DEF CreateFails, PageStep, TypeOK, serverVars
<1>10. ASSUME NEW i \in Ids, RevokeForPage(i) PROVE TypeOK' /\ (load \in Request)'
  <2>1. revoked' \subseteq Tokens
    BY <1>10, RevocationKeepsTypes DEF RevokeForPage, TypeOK
  <2>2. strayed' \in BOOLEAN
    BY <1>10 DEF RevokeForPage, TypeOK
  <2>3. revoking' \in [Ids -> {"no", "sent", "revoked", "missing"}]
    BY <1>10 DEF RevokeForPage, TypeOK
  <2> QED BY <1>10, <2>1, <2>2, <2>3 DEF RevokeForPage, TypeOK
<1>11. ASSUME NEW i \in Ids, ClickRevoke(i) PROVE TypeOK' /\ (load \in Request)'
  BY <1>11 DEF ClickRevoke, PageStep, TypeOK, serverVars
<1>12. ASSUME NEW i \in Ids, ApplyRevoke(i) PROVE TypeOK' /\ (load \in Request)'
  <2>1. rows' \in Seq(Row)
    BY <1>12, RevokedRows
  <2> QED BY <1>12, <2>1 DEF ApplyRevoke, PageStep, TypeOK, serverVars
<1>13. ASSUME NEW i \in Ids, RevokeFails(i) PROVE TypeOK' /\ (load \in Request)'
  BY <1>13 DEF RevokeFails, PageStep, TypeOK, serverVars
<1>14. CASE UNCHANGED vars
  BY <1>14 DEF vars, serverVars, pageVars, TypeOK
<1> QED BY <1>1, <1>2, <1>3, <1>4, <1>5, <1>6, <1>7, <1>8, <1>9, <1>10, <1>11, <1>12, <1>13,
           <1>14 DEF Next

-----------------------------------------------------------------------------
(* The steps *)

\* What no step takes back: a reason to show a token as revoked, a secret that was drawn,
\* and, but for a restart, what the store holds.
LEMMA ReasonsKept ==
  ASSUME TypeOK, [Next]_vars
  PROVE  /\ id' = id /\ used \subseteq used' /\ (restarted => restarted')
         /\ (strayed => strayed')
         /\ ~restarted' => revoked \subseteq revoked' /\ Held \subseteq Held'
         /\ \A t : t \in revoked \/ Alike(t) \/ restarted
                   => t \in revoked' \/ (\E u \in used' \ {t} : id'[u] = id'[t]) \/ restarted'
<1>1. id' = id /\ used \subseteq used'
  BY DEF Next, list, CreateForPage, Elsewhere, Restart, Mount, ApplyLoad, ClickCreate, ApplyCreate,
         CreateFails, RevokeForPage, ClickRevoke, ApplyRevoke, RevokeFails, PageStep, Push,
         vars, serverVars
<1>2. restarted' = restarted \/ restarted' = TRUE
  BY DEF Next, list, CreateForPage, Elsewhere, Restart, Mount, ApplyLoad, ClickCreate, ApplyCreate,
         CreateFails, RevokeForPage, ClickRevoke, ApplyRevoke, RevokeFails, PageStep,
         vars, pageVars
<1>3. strayed => strayed'
  BY DEF Next, list, CreateForPage, Elsewhere, Restart, Mount, ApplyLoad, ClickCreate, ApplyCreate,
         CreateFails, RevokeForPage, ClickRevoke, ApplyRevoke, RevokeFails, PageStep,
         vars, pageVars
<1>4. ~restarted' => revoked \subseteq revoked' /\ Held \subseteq Held'
  <2>1. CASE UNCHANGED <<store, revoked>>
    BY <2>1 DEF Held
  <2>2. CASE Push
    BY <2>2, PushKeepsTypes
  <2>3. ASSUME NEW i \in Ids, Matching(i) # {}, RevokeFirst(i), UNCHANGED store
        PROVE  revoked \subseteq revoked' /\ Held \subseteq Held'
    BY <2>3 DEF RevokeFirst, Held
  <2>4. CASE Restart
    BY <2>4 DEF Restart
  <2> QED BY <2>1, <2>2, <2>3, <2>4
          DEF Next, list, CreateForPage, Elsewhere, Mount, ApplyLoad, ClickCreate, ApplyCreate,
              CreateFails, RevokeForPage, ClickRevoke, ApplyRevoke, RevokeFails, PageStep,
              vars, serverVars
<1> QED BY <1>1, <1>4, <1>2, <1>3 DEF Alike

\* A token is pushed once, and only a token in the store is revoked.
LEMMA StoreKept ==
  ASSUME TypeOK, StoreInv, [Next]_vars
  PROVE  StoreInv'
<1>1. CASE UNCHANGED <<store, revoked, used>>
  BY <1>1 DEF StoreInv, Held
<1>2. CASE Push
  <2>1. PICK t \in Tokens \ used : used' = used \cup {t} /\ store' = Append(store, t)
                                   /\ revoked' = revoked
    BY <1>2 DEF Push
  <2>2. /\ Len(store) \in Nat
        /\ DOMAIN store = 1..Len(store) /\ DOMAIN store' = 1..(Len(store) + 1)
        /\ \A n \in DOMAIN store : store'[n] = store[n]
        /\ store'[Len(store) + 1] = t /\ Held' = Held \cup {t}
    BY <2>1, PushedStore
  <2>3. \A n \in DOMAIN store : store'[n] # t
    BY <2>2, <2>1 DEF StoreInv, Held
  <2>4. \A m, n \in DOMAIN store' : store'[m] = store'[n] => m = n
    BY <2>2, <2>3 DEF StoreInv
  <2> QED BY <2>1, <2>2, <2>4 DEF StoreInv
<1>3. ASSUME NEW i \in Ids, Matching(i) # {}, RevokeFirst(i), UNCHANGED <<store, used>>
      PROVE  StoreInv'
  <2>1. revoked' \subseteq Held
    BY <1>3, FirstMatches DEF RevokeFirst, StoreInv
  <2> QED BY <1>3, <2>1 DEF StoreInv, Held
<1>4. CASE Restart
  BY <1>4 DEF Restart, StoreInv, Held
<1> QED BY <1>1, <1>2, <1>3, <1>4
        DEF Next, list, CreateForPage, Elsewhere, Mount, ApplyLoad, ClickCreate, ApplyCreate,
            CreateFails, RevokeForPage, ClickRevoke, ApplyRevoke, RevokeFails, PageStep,
            vars, serverVars

\* The actions that change the rows, the answer of a list and that of a createToken.
LEMMA Changes ==
  ASSUME [Next]_vars
  PROVE  /\ rows' = rows \/ ApplyLoad \/ ApplyCreate \/ \E i \in Ids : ApplyRevoke(i)
         /\ load' = load \/ load' \in {Sent, Over} \/ list
         /\ create' = create \/ create' \in {Unsent, Sent} \/ CreateForPage
         /\ revoking' = revoking \/ \E i \in Ids : \/ RevokeForPage(i)
                                                   \/ revoking' = [revoking EXCEPT ![i] = "sent"]
                                                   \/ revoking' = [revoking EXCEPT ![i] = "no"]
  BY DEF Next, list, CreateForPage, Elsewhere, Restart, Mount, ApplyLoad, ClickCreate, ApplyCreate,
         CreateFails, RevokeForPage, ClickRevoke, ApplyRevoke, RevokeFails, PageStep, Push,
         vars, pageVars

\* A row is shown as revoked for a reason, in the rows and in an answer on its way.
LEMMA SoundKept ==
  ASSUME TypeOK, load \in Request, StoreInv, AnswerInv, [Next]_vars
  PROVE  Sound(rows)' /\ (load.state = "answered" => Sound(load.answer))'
<1> USE DEF Reason
<1>1. /\ id' = id
      /\ \A t : t \in revoked \/ Alike(t) \/ restarted
                => t \in revoked' \/ (\E u \in used' \ {t} : id'[u] = id'[t]) \/ restarted'
  BY ReasonsKept
<1>2. Sound(rows)'
  <2>1. CASE rows' = rows
    BY <1>1, <2>1 DEF AnswerInv, Sound, Alike
  <2>2. CASE ApplyLoad
    BY <1>1, <2>2 DEF AnswerInv, ApplyLoad, Sound, Alike
  <2>3. CASE ApplyCreate
    <3>1. create.answer \in Tokens
      BY <2>3 DEF ApplyCreate, TypeOK, Unsent, Sent, Answered
    <3> DEFINE row == [token |-> create.answer, revoked |-> FALSE]
    <3>2. row \in Row /\ rows \in Seq(Row) /\ rows' = <<row>> \o rows /\ row.revoked = FALSE
      BY <3>1, <2>3 DEF ApplyCreate, Row, TypeOK
    <3> HIDE DEF row
    <3>3. \A n \in DOMAIN rows' : rows'[n] = row \/ \E m \in DOMAIN rows : rows'[n] = rows[m]
      BY <3>2, PrependedRow
    <3>4. ASSUME NEW n \in DOMAIN rows', rows'[n].revoked
          PROVE  \E m \in DOMAIN rows : rows[m].revoked /\ rows[m].token = rows'[n].token
      BY <3>2, <3>3, <3>4
    <3> QED BY <1>1, <3>4 DEF AnswerInv, Sound, Alike
  <2>4. ASSUME NEW i \in Ids, ApplyRevoke(i) PROVE Sound(rows)'
    <3>1. /\ DOMAIN rows' = DOMAIN rows
          /\ \A n \in DOMAIN rows :
               /\ rows'[n].token = rows[n].token
               /\ rows'[n].revoked = IF id[rows[n].token] = i THEN TRUE ELSE rows[n].revoked
          /\ Shown(rows)' = Shown(rows)
      BY <2>4, RevokedRows
    <3>2. UNCHANGED <<revoked, used, restarted>> /\ revoking[i] = "revoked"
      BY <2>4 DEF ApplyRevoke, PageStep, serverVars
    <3>3. ASSUME ~restarted, NEW n \in DOMAIN rows, id[rows[n].token] = i
          PROVE  rows[n].token \in revoked \/ Alike(rows[n].token)
      <4>1. PICK t \in revoked : id[t] = i
        BY <2>4, <3>2, <3>3 DEF AnswerInv
      <4>2. t \in used
        BY <4>1 DEF StoreInv
      <4> QED BY <3>3, <4>1, <4>2 DEF Alike
    <3>4. ASSUME NEW n \in DOMAIN rows, rows'[n].revoked
          PROVE  rows[n].token \in revoked \/ Alike(rows[n].token) \/ restarted
      <4>1. CASE id[rows[n].token] = i
        BY <3>3, <4>1
      <4>2. CASE id[rows[n].token] # i
        BY <3>1, <3>4, <4>2 DEF AnswerInv, Sound
      <4> QED BY <4>1, <4>2
    <3>5. ASSUME NEW n \in DOMAIN rows', rows'[n].revoked
          PROVE  \/ rows'[n].token \in revoked' \/ restarted'
                 \/ \E u \in used' \ {rows'[n].token} : id'[u] = id'[rows'[n].token]
      <4>1. n \in DOMAIN rows /\ rows'[n].token = rows[n].token
        BY <3>1, <3>5
      <4> QED BY <1>1, <3>4, <3>5, <4>1
    <3> QED BY <3>5 DEF Sound, Alike
  <2> QED BY <2>1, <2>2, <2>3, <2>4, Changes
<1>3. (load.state = "answered" => Sound(load.answer))'
  <2>1. CASE load' = load
    BY <1>1, <2>1 DEF AnswerInv, Sound, Alike
  <2>2. CASE load' \in {Sent, Over}
    BY <2>2 DEF Sent, Over
  <2>3. CASE list
    <3>1. load'.answer = Stored
      BY <2>3 DEF list, Answered
    <3>2. \A n \in DOMAIN Stored : Stored[n].revoked => Stored[n].token \in revoked'
      <4>1. revoked' = revoked
        BY <2>3 DEF list, serverVars
      <4> QED BY <4>1, StoredList
    <3>3. ASSUME NEW n \in DOMAIN load'.answer, load'.answer[n].revoked
          PROVE  load'.answer[n].token \in revoked'
      BY <3>1, <3>2, <3>3
    <3> QED BY <3>3 DEF Sound
  <2> QED BY <2>1, <2>2, <2>3, Changes
<1> QED BY <1>2, <1>3

\* Until a restart every answer tells of tokens the store holds.
LEMMA AnswersKept ==
  ASSUME TypeOK, load \in Request, StoreInv, AnswerInv, [Next]_vars
  PROVE  AnswerInv'
<1>1. /\ id' = id /\ (restarted => restarted')
      /\ ~restarted' => revoked \subseteq revoked' /\ Held \subseteq Held'
  BY ReasonsKept
<1>2. SUFFICES ASSUME ~restarted'
               PROVE  /\ (Shown(rows) \subseteq Held)'
                      /\ (Created \subseteq Held)'
                      /\ (load.state = "answered" => Shown(load.answer) \subseteq Held)'
                      /\ (\A i \in Ids : revoking[i] = "revoked" => \E t \in revoked : id[t] = i)'
  BY SoundKept DEF AnswerInv
<1>3. (Shown(rows) \subseteq Held)'
  <2>1. CASE rows' = rows
    BY <1>1, <1>2, <2>1 DEF AnswerInv, Shown
  <2>2. CASE ApplyLoad
    BY <1>1, <1>2, <2>2 DEF AnswerInv, ApplyLoad, Shown
  <2>3. CASE ApplyCreate
    <3>1. create.answer \in Tokens /\ create.answer \in Created
      BY <2>3 DEF ApplyCreate, TypeOK, Unsent, Sent, Answered, Created
    <3> DEFINE row == [token |-> create.answer, revoked |-> FALSE]
    <3>2. /\ row \in Row /\ rows \in Seq(Row) /\ rows' = <<row>> \o rows
          /\ row.token = create.answer
      BY <3>1, <2>3 DEF ApplyCreate, Row, TypeOK
    <3> HIDE DEF row
    <3>3. Shown(<<row>> \o rows) = {row.token} \cup Shown(rows)
      BY <3>2, PrependedRow
    <3>4. Shown(rows)' = {row.token} \cup Shown(rows)
      BY <3>2, <3>3 DEF Shown
    <3> QED BY <1>1, <1>2, <3>1, <3>2, <3>4 DEF AnswerInv
  <2>4. ASSUME NEW i \in Ids, ApplyRevoke(i) PROVE (Shown(rows) \subseteq Held)'
    <3>1. Shown(rows)' = Shown(rows)
      BY <2>4, RevokedRows
    <3> QED BY <1>1, <1>2, <3>1 DEF AnswerInv
  <2> QED BY <2>1, <2>2, <2>3, <2>4, Changes
<1>4. (Created \subseteq Held)'
  <2>1. CASE create' = create
    BY <1>1, <1>2, <2>1 DEF AnswerInv, Created
  <2>2. CASE create' \in {Unsent, Sent}
    BY <2>2 DEF Created, Unsent, Sent, Answered
  <2>3. CASE CreateForPage
    <3>1. PICK t \in Tokens : store' = Append(store, t)
      BY <2>3 DEF CreateForPage, Push
    <3>2. store'[Len(store')] = t /\ t \in Held'
      BY <3>1, PushedStore
    <3> QED BY <2>3, <3>2 DEF CreateForPage, Created, Answered
  <2> QED BY <2>1, <2>2, <2>3, Changes
<1>5. (load.state = "answered" => Shown(load.answer) \subseteq Held)'
  <2>1. CASE load' = load
    BY <1>1, <1>2, <2>1 DEF AnswerInv, Shown
  <2>2. CASE load' \in {Sent, Over}
    BY <2>2 DEF Sent, Over
  <2>3. CASE list
    <3>1. load'.answer = Stored
      BY <2>3 DEF list, Answered
    <3>2. Shown(Stored) = Held
      BY StoredList
    <3> QED BY <1>1, <1>2, <3>1, <3>2 DEF Shown
  <2> QED BY <2>1, <2>2, <2>3, Changes
<1>6. ASSUME NEW j \in Ids, revoking'[j] = "revoked" PROVE \E t \in revoked' : id'[t] = j
  <2>1. CASE revoking[j] = "revoked"
    BY <1>1, <1>2, <2>1 DEF AnswerInv
  <2>2. CASE revoking[j] # "revoked"
    <3>1. RevokeForPage(j) /\ Matching(j) # {} /\ RevokeFirst(j)
      BY <1>6, <2>2, Changes DEF RevokeForPage, TypeOK
    <3> QED BY <1>1, <3>1, FirstMatches DEF RevokeFirst
  <2> QED BY <2>1, <2>2
<1> QED BY <1>3, <1>4, <1>5, <1>6

-----------------------------------------------------------------------------
(* When nothing strayed *)

\* Two secrets with one prefix, a restart and a stray answer stay.
LEMMA CleanBefore ==
  ASSUME TypeOK, StoreInv, AnswerInv, CleanInv, [Next]_vars, Clean'
  PROVE  /\ Clean
         /\ \A t, u \in used : id[t] = id[u] => t = u
         /\ Held \subseteq used /\ Held \subseteq Tokens /\ revoked \subseteq Held
         /\ Shown(rows) \subseteq Held /\ Created \subseteq Held
         /\ ~strayed' /\ ~restarted'
<1>1. /\ id' = id /\ used \subseteq used' /\ (restarted => restarted') /\ (strayed => strayed')
  BY ReasonsKept
<1>2. ~strayed' /\ ~restarted' /\ Clean
  BY <1>1 DEF Clean, Alike
<1>3. \A t, u \in used : id[t] = id[u] => t = u
  BY <1>2 DEF Clean, Alike
<1>4. Held \subseteq Tokens
  BY LenProperties DEF TypeOK, Held
<1> QED BY <1>2, <1>3, <1>4 DEF StoreInv, AnswerInv, Clean

\* The answer of a list that is read while nothing strayed is still true when it comes.
LEMMA ListExact ==
  ASSUME TypeOK, load \in Request, StoreInv, AnswerInv, CleanInv, [Next]_vars, Clean'
  PROVE  (load.state = "answered" => load.answer = Stored)'
<1>1. Clean /\ ~strayed' /\ ~restarted'
  BY CleanBefore
<1>2. CASE load' \in {Sent, Over}
  BY <1>2 DEF Sent, Over
<1>3. CASE list
  BY <1>3 DEF list, Stored, serverVars, Answered
<1>4. CASE load' = load /\ UNCHANGED <<store, revoked>>
  BY <1>1, <1>4 DEF CleanInv, Stored
<1>5. CASE load' = load /\ ~UNCHANGED <<store, revoked>>
  <2>1. CreateForPage \/ Elsewhere \/ Restart \/ \E i \in Ids : RevokeForPage(i)
    BY <1>5 DEF Next, list, Mount, ApplyLoad, ClickCreate, ApplyCreate, CreateFails, ClickRevoke,
                ApplyRevoke, RevokeFails, PageStep, vars, serverVars
  <2>2. load.state # "answered"
    BY <1>1, <1>5, <2>1 DEF CreateForPage, Elsewhere, Restart, RevokeForPage
  <2> QED BY <1>5, <2>2
<1> QED BY <1>2, <1>3, <1>4, <1>5, Changes

\* A revocation under way is of a token in the store that was answered for.
LEMMA RevocationsMeant ==
  ASSUME TypeOK, load \in Request, StoreInv, AnswerInv, CleanInv, [Next]_vars, Clean'
  PROVE  (\A i \in Ids : revoking[i] # "no" => \E t \in Held \ Created : id[t] = i)'
<1>1. /\ Clean /\ ~strayed' /\ ~restarted' /\ Held \subseteq used
      /\ Shown(rows) \subseteq Held
  BY CleanBefore
<1>2. id' = id /\ Held \subseteq Held'
  BY <1>1, ReasonsKept
<1>3. Created' \cap Held \subseteq Created
  <2>1. CASE create' = create
    BY <2>1 DEF Created
  <2>2. CASE create' \in {Unsent, Sent}
    BY <2>2 DEF Created, Unsent, Sent, Answered
  <2>3. CASE CreateForPage
    <3>1. PICK t \in Tokens \ used : store' = Append(store, t)
      BY <2>3 DEF CreateForPage, Push
    <3>2. store'[Len(store')] = t
      BY <3>1, PushedStore
    <3> QED BY <1>1, <2>3, <3>1, <3>2 DEF CreateForPage, Created, Answered
  <2> QED BY <2>1, <2>2, <2>3, Changes
<1>4. ASSUME NEW i \in Ids, revoking'[i] # "no"
      PROVE  \E t \in Held \ Created : id[t] = i
  <2>1. CASE revoking[i] # "no"
    BY <1>1, <2>1 DEF CleanInv
  <2>2. CASE revoking[i] = "no"
    <3>1. ClickRevoke(i)
      BY <1>4, <2>2 DEF Next, list, CreateForPage, Elsewhere, Restart, Mount, ApplyLoad,
         ClickCreate, ApplyCreate, CreateFails, RevokeForPage, ClickRevoke, ApplyRevoke,
         RevokeFails, vars, pageVars, TypeOK
    <3>2. PICK n \in DOMAIN rows : id[rows[n].token] = i
      BY <3>1 DEF ClickRevoke
    <3>3. rows[n].token \in Shown(rows)
      BY <3>2 DEF Shown
    <3>4. rows[n].token \in Held \ Created
      BY <1>1, <3>3 DEF CleanInv, CreatedIsNew
    <3> QED BY <3>2, <3>4
  <2> QED BY <2>1, <2>2
<1> QED BY <1>2, <1>3, <1>4

\* Steps that leave the rows, the store and what a createToken was answered with.
LEMMA RowsUntouched ==
  ASSUME CreatedIsNew, load = Over => NothingMissing,
         UNCHANGED <<id, store, revoked, rows, create>>, load' = load \/ load' # Over,
         \A i \in Ids : revoking[i] = "revoked" => revoking'[i] = "revoked",
         id \in [Tokens -> Ids], rows \in Seq(Row)
  PROVE  CreatedIsNew' /\ (load = Over => NothingMissing)'
<1>1. Held' = Held /\ Created' = Created /\ Shown(rows)' = Shown(rows)
  BY DEF Held, Created, Shown
<1>2. \A n \in DOMAIN rows : id[rows[n].token] \in Ids
  <2>1. \A n \in DOMAIN rows : rows[n] \in Row
    BY LenProperties
  <2> QED BY <2>1 DEF Row
<1>3. CreatedIsNew'
  BY <1>1 DEF CreatedIsNew
<1> QED BY <1>1, <1>2, <1>3 DEF NothingMissing

\* An answer on its way makes up for what the rows lack.
LEMMA RowsMadeUp ==
  ASSUME TypeOK, load \in Request, StoreInv, AnswerInv, CleanInv, [Next]_vars, Clean'
  PROVE  CreatedIsNew' /\ (load = Over => NothingMissing)'
<1> DEFINE Kept == CreatedIsNew' /\ (load = Over => NothingMissing)'
<1>1. /\ Clean /\ ~strayed' /\ ~restarted' /\ Held \subseteq used
      /\ revoked \subseteq Held /\ Shown(rows) \subseteq Held /\ Created \subseteq Held
      /\ \A t, u \in used : id[t] = id[u] => t = u
  BY CleanBefore
<1>2. /\ CreatedIsNew /\ (load = Over => NothingMissing)
      /\ \A i \in Ids : revoking[i] # "no" => \E t \in Held \ Created : id[t] = i
  BY <1>1 DEF CleanInv
<1>3. /\ id \in [Tokens -> Ids] /\ rows \in Seq(Row) /\ Len(rows) \in Nat /\ Len(store) \in Nat
      /\ \A n \in DOMAIN rows : rows[n].token \in Shown(rows) /\ id[rows[n].token] \in Ids
  <2>1. /\ id \in [Tokens -> Ids] /\ rows \in Seq(Row) /\ Len(rows) \in Nat /\ Len(store) \in Nat
        /\ \A n \in DOMAIN rows : rows[n] \in Row
    BY LenProperties DEF TypeOK
  <2> QED BY <2>1 DEF Row, Shown
<1>4. CASE list \/ Mount \/ UNCHANGED vars
  BY <1>2, <1>3, <1>4, RowsUntouched
     DEF list, Mount, PageStep, vars, serverVars, pageVars, Answered, Sent, Over
<1>5. ASSUME NEW i \in Ids, ClickRevoke(i) PROVE Kept
  BY <1>2, <1>3, <1>5, RowsUntouched DEF ClickRevoke, PageStep, serverVars, TypeOK
<1>6. ASSUME NEW i \in Ids, RevokeFails(i) PROVE Kept
  BY <1>1, <1>2, <1>3, <1>6, RowsUntouched DEF RevokeFails, PageStep, serverVars, TypeOK
<1>7. CASE ClickCreate \/ CreateFails
  <2>1. create \in {Unsent, Sent} /\ create' \in {Unsent, Sent}
    BY <1>1, <1>7, Zenon DEF ClickCreate, CreateFails
  <2>2. create.state # "answered" /\ create'.state # "answered"
    BY <2>1 DEF Unsent, Sent
  <2>3. Created = {} /\ Created' = {}
    BY <2>2 DEF Created, Answered
  <2>4. UNCHANGED <<id, store, revoked, rows, revoking, load>>
    BY <1>7 DEF ClickCreate, CreateFails, PageStep, serverVars
  <2>5. Held' = Held /\ Shown(rows)' = Shown(rows)
    BY <2>4 DEF Held, Shown
  <2> QED BY <1>2, <2>2, <2>3, <2>4, <2>5 DEF CreatedIsNew, NothingMissing
<1>8. CASE Restart
  BY <1>1, <1>8 DEF Restart
<1>9. CASE Elsewhere
  <2>1. load.state \notin {"answered", "over"} /\ create.state # "answered" /\ UNCHANGED pageVars
    BY <1>1, <1>9 DEF Elsewhere
  <2>2. Created' = {} /\ load' # Over
    BY <2>1 DEF Created, Answered, Over, pageVars
  <2> QED BY <2>2 DEF CreatedIsNew
<1>10. CASE CreateForPage
  <2>1. PICK t \in Tokens \ used : store' = Append(store, t)
    BY <1>10 DEF CreateForPage, Push
  <2>2. /\ Len(store') = Len(store) + 1 /\ store'[Len(store')] = t
        /\ Held' = Held \cup {t}
    BY <2>1, PushedStore
  <2>3. /\ UNCHANGED <<id, revoked, rows, revoking, load>>
        /\ create' = Answered(t) /\ create = Sent
    BY <1>10, <2>2 DEF CreateForPage, Push
  <2>4. Created = {} /\ Created' = {t} /\ create.state # "answered" /\ create'.state = "answered"
    BY <2>1, <2>3 DEF Created, Answered, Sent
  <2>5. Shown(rows)' = Shown(rows) /\ t \notin Held
    BY <1>1, <2>1, <2>3 DEF Shown
  <2> QED BY <1>1, <1>2, <1>3, <2>2, <2>3, <2>4, <2>5 DEF CreatedIsNew, NothingMissing
<1>11. ASSUME NEW i \in Ids, RevokeForPage(i) PROVE Kept
  <2>1. CASE Matching(i) = {}
    BY <1>2, <1>3, <1>11, <2>1, RowsUntouched DEF RevokeForPage, TypeOK
  <2>2. CASE Matching(i) # {}
    <3>1. PICK t \in Held : id[t] = i /\ revoked' = revoked \cup {t}
      BY <1>11, <2>2, RevocationKeepsTypes DEF RevokeForPage
    <3>2. /\ UNCHANGED <<id, store, rows, create, load>>
          /\ revoking' = [revoking EXCEPT ![i] = "revoked"] /\ revoking[i] = "sent"
      BY <1>11, <2>2 DEF RevokeForPage
    <3>3. Held' = Held /\ Created' = Created /\ Shown(rows)' = Shown(rows)
      BY <3>2 DEF Held, Created, Shown
    <3>4. t \notin Created
      BY <1>1, <1>2, <3>1, <3>2
    <3>5. CreatedIsNew'
      BY <1>2, <3>1, <3>3, <3>4 DEF CreatedIsNew
    <3>6. /\ \A j \in Ids : revoking[j] = "revoked" => revoking'[j] = "revoked"
          /\ revoking'[i] = "revoked"
      BY <3>2 DEF TypeOK
    <3>7. ASSUME NEW n \in DOMAIN rows, rows[n].token \in revoked', NothingMissing
          PROVE  rows[n].revoked \/ revoking'[id[rows[n].token]] = "revoked"
      BY <1>3, <3>1, <3>6, <3>7 DEF NothingMissing
    <3> QED BY <1>2, <3>2, <3>3, <3>5, <3>7 DEF NothingMissing
  <2> QED BY <2>1, <2>2
<1>12. CASE ApplyLoad
  <2>1. /\ load.state = "answered" /\ create.state # "answered"
        /\ rows' = load.answer /\ UNCHANGED <<id, store, revoked, create>>
    BY <1>1, <1>12 DEF ApplyLoad, PageStep, serverVars
  <2>2. rows' = Stored
    BY <1>1, <2>1 DEF CleanInv
  <2>3. Shown(rows)' = Held /\ Held' = Held /\ Created' = {}
    BY <2>1, <2>2, StoredList DEF Shown, Held, Created, Answered
  <2>4. /\ Len(rows') = Len(store)
        /\ \A n \in DOMAIN rows' : rows'[n].token \in revoked => rows'[n].revoked
    BY <2>2, StoredList
  <2> QED BY <1>3, <2>1, <2>3, <2>4 DEF CreatedIsNew, NothingMissing
<1>13. CASE ApplyCreate
  <2>1. PICK t \in Tokens : create = Answered(t)
    BY <1>13 DEF ApplyCreate, TypeOK, Unsent, Sent
  <2> DEFINE row == [token |-> t, revoked |-> FALSE]
  <2>2. /\ row \in Row /\ rows' = <<row>> \o rows /\ row.token = t
        /\ create' = Unsent /\ UNCHANGED <<id, store, revoked, load, revoking>>
        /\ create.state = "answered" /\ create'.state # "answered"
    BY <1>13, <2>1 DEF ApplyCreate, PageStep, serverVars, Answered, Unsent, Row
  <2> HIDE DEF row
  <2>3. /\ Len(rows') = Len(rows) + 1
        /\ \A n \in DOMAIN rows' : rows'[n] = row \/ \E m \in DOMAIN rows : rows'[n] = rows[m]
    BY <1>3, <2>2, PrependedRow
  <2>4. Shown(<<row>> \o rows) = {t} \cup Shown(rows)
    BY <1>3, <2>2, PrependedRow
  <2>5. Shown(rows)' = {t} \cup Shown(rows) /\ Held' = Held
    BY <2>2, <2>4 DEF Shown, Held
  <2>6. Created = {t} /\ Created' = {} /\ t \notin revoked
    BY <1>2, <2>1, <2>2 DEF Created, Answered, CreatedIsNew
  <2>7. ASSUME NothingMissing PROVE NothingMissing'
    <3>1. ASSUME NEW n \in DOMAIN rows', rows'[n].token \in revoked'
          PROVE  rows'[n].revoked \/ revoking'[id'[rows'[n].token]] = "revoked"
      <4>1. rows'[n] # row
        BY <2>2, <2>6, <3>1
      <4>2. PICK m \in DOMAIN rows : rows'[n] = rows[m]
        BY <2>3, <3>1, <4>1
      <4>3. rows[m].revoked \/ revoking[id[rows[m].token]] = "revoked"
        BY <2>2, <2>7, <3>1, <4>2 DEF NothingMissing
      <4> QED BY <2>2, <4>2, <4>3
    <3>2. Shown(rows)' \cup Created' = Held'
      BY <2>5, <2>6, <2>7 DEF NothingMissing
    <3>3. Len(store') = Len(rows') + (IF create'.state = "answered" THEN 1 ELSE 0)
      BY <1>3, <2>2, <2>3, <2>7 DEF NothingMissing
    <3>4. (Shown(rows) \cup Created = Held)'
      BY <3>2
    <3> QED BY <3>1, <3>3, <3>4 DEF NothingMissing
  <2> QED BY <1>2, <2>2, <2>6, <2>7 DEF CreatedIsNew
<1>14. ASSUME NEW i \in Ids, ApplyRevoke(i) PROVE Kept
  <2>1. /\ Len(rows') = Len(rows) /\ DOMAIN rows' = DOMAIN rows /\ Shown(rows)' = Shown(rows)
        /\ \A n \in DOMAIN rows :
             /\ rows'[n].token = rows[n].token
             /\ rows'[n].revoked = IF id[rows[n].token] = i THEN TRUE ELSE rows[n].revoked
    BY <1>14, RevokedRows
  <2>2. UNCHANGED <<id, store, revoked, create, load>>
        /\ revoking' = [revoking EXCEPT ![i] = "no"]
    BY <1>14 DEF ApplyRevoke, PageStep, serverVars
  <2>3. Held' = Held /\ Created' = Created
    BY <2>2 DEF Held, Created
  <2>4. ASSUME NothingMissing, NEW n \in DOMAIN rows, rows[n].token \in revoked
        PROVE  rows'[n].revoked \/ revoking'[id[rows[n].token]] = "revoked"
    <3>1. CASE id[rows[n].token] = i
      BY <2>1, <3>1
    <3>2. CASE id[rows[n].token] # i
      BY <1>3, <2>1, <2>2, <2>4, <3>2 DEF NothingMissing, TypeOK
    <3> QED BY <3>1, <3>2
  <2> QED BY <1>2, <2>1, <2>2, <2>3, <2>4 DEF CreatedIsNew, NothingMissing
<1> QED BY <1>4, <1>5, <1>6, <1>7, <1>8, <1>9, <1>10, <1>11, <1>12, <1>13, <1>14 DEF Next

-----------------------------------------------------------------------------
(* The theorems *)

\* What is shown, what is stored and what the answers on their way tell fit together in
\* every state.
THEOREM Invariance == Spec => []TokenInv
<1>1. ASSUME Init PROVE TokenInv
  <2>1. TypeOK /\ load \in Request
    BY <1>1, EmptySeq DEF Init, TypeOK, Request, Unsent, Sent
  <2>2. Held = {} /\ Created = {} /\ Shown(rows) = {} /\ load.state # "answered" /\ load # Over
    BY <1>1 DEF Init, Held, Created, Shown, Unsent, Over, Answered
  <2> QED BY <1>1, <2>1, <2>2 DEF Init, TokenInv, StoreInv, AnswerInv, CleanInv, CreatedIsNew, Sound
<1>2. ASSUME TokenInv, [Next]_vars PROVE TokenInv'
  <2>1. TypeOK /\ load \in Request /\ StoreInv /\ AnswerInv /\ CleanInv
    BY <1>2 DEF TokenInv
  <2>2. CleanInv'
    BY <1>2, <2>1, ListExact, RevocationsMeant, RowsMadeUp DEF CleanInv
  <2> QED BY <1>2, <2>1, <2>2, TypesKept, StoreKept, AnswersKept DEF TokenInv
<1> QED BY <1>1, <1>2, PTL DEF Spec

\* A token the page shows as revoked is revoked, has the prefix of another, or the server
\* was restarted: for any answers that cross (revokeToken, onRevoke).
THEOREM ShownSafe == Spec => []ShownRevokedIsRevoked
<1>1. TokenInv => ShownRevokedIsRevoked
  BY DEF TokenInv, AnswerInv, Sound, Reason, ShownRevokedIsRevoked
<1> QED BY <1>1, Invariance, PTL

\* When nothing is under way and nothing strayed, the page lists the tokens of the store.
THEOREM SettledSafe == Spec => []SettledPageExact
<1>1. ASSUME TokenInv, load = Over, create = Unsent, \A i \in Ids : revoking[i] = "no", Clean
      PROVE  /\ Len(rows) = Len(store)
             /\ {rows[n] : n \in DOMAIN rows} = {Stored[n] : n \in DOMAIN store}
  <2>1. /\ TypeOK /\ NothingMissing /\ Sound(rows) /\ StoreInv
        /\ Shown(rows) \subseteq Held
    BY <1>1 DEF TokenInv, CleanInv, AnswerInv, Clean
  <2>2. create.state # "answered" /\ Created = {}
    BY <1>1 DEF Unsent, Answered, Created
  <2>3. /\ rows \in Seq(Row) /\ Len(rows) \in Nat /\ Len(store) \in Nat
        /\ \A n \in DOMAIN rows : rows[n] \in Row
    BY <2>1, LenProperties DEF TypeOK
  <2>4. Len(rows) = Len(store) /\ Shown(rows) = Held
    BY <2>1, <2>2, <2>3 DEF NothingMissing
  <2>5. \A n \in DOMAIN rows : rows[n].token \in Held
    BY <2>4 DEF Shown
  <2>6. \A n \in DOMAIN rows : rows[n].token \in revoked => rows[n].revoked
    <3>1. \A n \in DOMAIN rows : id[rows[n].token] \in Ids
      BY <2>1, <2>3 DEF TypeOK, Row
    <3> QED BY <1>1, <2>1, <3>1 DEF NothingMissing
  <2>7. \A n \in DOMAIN rows : rows[n].revoked => rows[n].token \in revoked
    BY <1>1, <2>1, <2>5 DEF Sound, Reason, Clean, StoreInv
  <2>8. \A n \in DOMAIN rows :
          rows[n] = [token |-> rows[n].token, revoked |-> rows[n].token \in revoked]
    BY <2>3, <2>6, <2>7 DEF Row
  <2>9. {Stored[n] : n \in DOMAIN store} = {[token |-> t, revoked |-> t \in revoked] : t \in Held}
    BY DEF Stored, Held
  <2>10. {rows[n] : n \in DOMAIN rows}
           = {[token |-> t, revoked |-> t \in revoked] : t \in Shown(rows)}
    BY <2>8 DEF Shown
  <2> QED BY <2>4, <2>9, <2>10
<1>2. TokenInv => SettledPageExact
  BY <1>1 DEF SettledPageExact, Clean
<1> QED BY <1>2, Invariance, PTL

\* Every variable has its type.
THEOREM TypeCorrect == Spec => []TypeOK
<1>1. TokenInv => TypeOK
  BY DEF TokenInv
<1> QED BY <1>1, Invariance, PTL
=============================================================================
