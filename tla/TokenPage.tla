----------------------------- MODULE TokenPage -----------------------------
(***************************************************************************)
(* The API tokens of one user: the store of the server                     *)
(* (crates/server/src/api/tokens.rs), which a restart empties, and a page  *)
(* of the dashboard that lists, creates and revokes them                   *)
(* (web/src/routes/tokens/+page.svelte).  Every request of the page is a   *)
(* fetch of its own, so answers cross; nothing tells the page what other   *)
(* tabs of the user do.                                                    *)
(***************************************************************************)
EXTENDS Naturals, Sequences, FiniteSets

CONSTANTS Tokens,  \* secrets that are drawn
          Ids      \* what the first eight digits of a secret can be

VARIABLES
  \* the server
  id,        \* the shown prefix of each secret
  store,     \* the tokens of the user, in the order they were created
  revoked,   \* those of them that are revoked
  \* the page
  rows,      \* what it lists
  load,      \* its getTokens
  create,    \* its createToken, one at a time
  revoking,  \* its revokeToken of each id
  \* what has happened
  used,      \* secrets drawn so far
  restarted, \* the server has forgotten its tokens
  strayed    \* an answer was lost, crossed another, or is older than a change elsewhere

serverVars == <<id, store, revoked, used>>
pageVars == <<rows, load, create, revoking>>
vars == <<serverVars, pageVars, restarted, strayed>>

Row == [token : Tokens, revoked : BOOLEAN]
Stored == [n \in DOMAIN store |-> [token |-> store[n], revoked |-> store[n] \in revoked]]

Unsent == [state |-> "unsent"]
Sent == [state |-> "sent"]
Over == [state |-> "over"]
Answered(answer) == [state |-> "answered", answer |-> answer]

Init == /\ id \in [Tokens -> Ids]
        /\ store = <<>>
        /\ revoked = {}
        /\ rows = <<>>
        /\ load = Unsent
        /\ create = Unsent
        /\ revoking = [i \in Ids |-> "no"]
        /\ used = {}
        /\ restarted = FALSE
        /\ strayed = FALSE

-----------------------------------------------------------------------------
(* The handlers of the server, each under the lock of the store *)

list == /\ load = Sent
        /\ load' = Answered(Stored)
        /\ UNCHANGED <<serverVars, rows, create, revoking, restarted, strayed>>

\* The secret is new, its prefix need not be.
Push == \E t \in Tokens \ used : /\ used' = used \cup {t}
                                 /\ store' = Append(store, t)
                                 /\ UNCHANGED <<id, revoked>>

\* A list that was read before is out of date when it comes.
CreateForPage == /\ create = Sent
                 /\ Push
                 /\ create' = Answered(store'[Len(store')])
                 /\ strayed' = (strayed \/ load.state = "answered")
                 /\ UNCHANGED <<rows, load, revoking, restarted>>

Matching(i) == {n \in DOMAIN store : id[store[n]] = i}
First(S) == CHOOSE n \in S : \A m \in S : n <= m

\* The first token with the id, also when it was revoked already.
RevokeFirst(i) == revoked' = revoked \cup {store[First(Matching(i))]}

RevokeForPage(i) ==
  /\ revoking[i] = "sent"
  /\ \/ /\ Matching(i) = {}
        /\ revoking' = [revoking EXCEPT ![i] = "missing"]
        /\ UNCHANGED <<revoked, strayed>>
     \/ /\ Matching(i) # {}
        /\ revoking' = [revoking EXCEPT ![i] = "revoked"]
        /\ RevokeFirst(i)
        /\ strayed' = (strayed \/ load.state = "answered")
  /\ UNCHANGED <<id, store, used, rows, load, create, restarted>>

\* Another tab of the user.
Elsewhere == /\ \/ Push
                \/ \E i \in Ids : /\ Matching(i) # {} /\ RevokeFirst(i)
                                  /\ UNCHANGED <<id, store, used>>
             /\ strayed' = (strayed \/ load.state \in {"answered", "over"}
                                    \/ create.state = "answered")
             /\ UNCHANGED <<pageVars, restarted>>

\* Nothing is persisted; the login stays valid.
Restart == /\ ~restarted
           /\ restarted' = TRUE
           /\ store' = <<>> /\ revoked' = {}
           /\ UNCHANGED <<id, used, pageVars, strayed>>

-----------------------------------------------------------------------------
(* The page *)

PageStep == UNCHANGED <<serverVars, restarted>>

Mount == /\ load = Unsent
         /\ load' = Sent
         /\ UNCHANGED <<rows, create, revoking, strayed>> /\ PageStep

\* Fault for the mutation runs: the list is put in front of the rows there are.
ApplyLoad_Merges == /\ load.state = "answered"
                    /\ rows' = load.answer \o rows
                    /\ load' = Over
                    /\ strayed' = (strayed \/ create.state = "answered")
                    /\ UNCHANGED <<create, revoking>> /\ PageStep

\* The list is set, whatever was created or revoked since it was asked for.
ApplyLoad == /\ load.state = "answered"
             /\ rows' = load.answer
             /\ load' = Over
             /\ strayed' = (strayed \/ create.state = "answered")
             /\ UNCHANGED <<create, revoking>> /\ PageStep

\* onCreate; the list need not have come yet.
ClickCreate == /\ load # Unsent /\ create = Unsent
               /\ create' = Sent
               /\ UNCHANGED <<rows, load, revoking, strayed>> /\ PageStep

\* The row is put in front, the secret shown.
ApplyCreate == /\ create.state = "answered"
               /\ rows' = <<[token |-> create.answer, revoked |-> FALSE]>> \o rows
               /\ create' = Unsent
               /\ UNCHANGED <<load, revoking, strayed>> /\ PageStep

\* An error, also when the token was made and only the answer is lost.
CreateFails == /\ create # Unsent
               /\ create' = Unsent
               /\ strayed' = (strayed \/ create # Sent)
               /\ UNCHANGED <<rows, load, revoking>> /\ PageStep

\* onRevoke; the button of the row is disabled until it ends.
ClickRevoke(i) == /\ revoking[i] = "no"
                  /\ \E n \in DOMAIN rows : id[rows[n].token] = i /\ ~rows[n].revoked
                  /\ revoking' = [revoking EXCEPT ![i] = "sent"]
                  /\ UNCHANGED <<rows, load, create, strayed>> /\ PageStep

\* Fault: the rows change without waiting for the answer.
ApplyRevoke_Optimistic(i) ==
  /\ revoking[i] \in {"sent", "revoked"}
  /\ rows' = [n \in DOMAIN rows |-> IF id[rows[n].token] = i
                                    THEN [rows[n] EXCEPT !.revoked = TRUE] ELSE rows[n]]
  /\ UNCHANGED <<load, create, revoking, strayed>> /\ PageStep

\* Every row with that id is shown as revoked.
ApplyRevoke(i) ==
  /\ revoking[i] = "revoked"
  /\ rows' = [n \in DOMAIN rows |-> IF id[rows[n].token] = i
                                    THEN [rows[n] EXCEPT !.revoked = TRUE] ELSE rows[n]]
  /\ revoking' = [revoking EXCEPT ![i] = "no"]
  /\ UNCHANGED <<load, create, strayed>> /\ PageStep

\* The row is left as it is, also when only the answer is lost.
RevokeFails(i) == /\ revoking[i] # "no"
                  /\ revoking' = [revoking EXCEPT ![i] = "no"]
                  /\ strayed' = (strayed \/ revoking[i] = "revoked")
                  /\ UNCHANGED <<rows, load, create>> /\ PageStep

-----------------------------------------------------------------------------
(* The specification *)

Next == \/ list \/ CreateForPage \/ Elsewhere \/ Restart
        \/ Mount \/ ApplyLoad \/ ClickCreate \/ ApplyCreate \/ CreateFails
        \/ \E i \in Ids : RevokeForPage(i) \/ ClickRevoke(i) \/ ApplyRevoke(i) \/ RevokeFails(i)

Spec == Init /\ [][Next]_vars

-----------------------------------------------------------------------------
(* Properties *)

TypeOK == /\ id \in [Tokens -> Ids]
          /\ store \in Seq(Tokens)
          /\ revoked \subseteq Tokens /\ used \subseteq Tokens
          /\ rows \in Seq(Row)
          /\ load.state = "answered" => load.answer \in Seq(Row)
          /\ load.state \in {"unsent", "sent", "answered", "over"}
          /\ create \in {Unsent, Sent} \cup {Answered(t) : t \in Tokens}
          /\ revoking \in [Ids -> {"no", "sent", "revoked", "missing"}]
          /\ restarted \in BOOLEAN /\ strayed \in BOOLEAN

Alike(t) == \E u \in used \ {t} : id[u] = id[t]

\* A token the page shows as revoked is revoked, unless another one has its id or the
\* server has forgotten it.
ShownRevokedIsRevoked ==
  \A n \in DOMAIN rows :
    rows[n].revoked => rows[n].token \in revoked \/ Alike(rows[n].token) \/ restarted

\* Once nothing is under way the page lists the tokens there are, each once and as it
\* is, in whatever order lists, creations and revocations were answered, unless one was
\* lost, crossed a list, or a change was made elsewhere.
SettledPageExact ==
  /\ load = Over /\ create = Unsent /\ (\A i \in Ids : revoking[i] = "no")
  /\ ~strayed /\ ~restarted /\ ~(\E t \in used : Alike(t))
  => /\ Len(rows) = Len(store)
     /\ {rows[n] : n \in DOMAIN rows} = {Stored[n] : n \in DOMAIN store}
=============================================================================
