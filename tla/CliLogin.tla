------------------------------ MODULE CliLogin ------------------------------
(***************************************************************************)
(* ~/.borehole.json and the commands that change it: `borehole config`,    *)
(* and `borehole login`, which opens the login page of the server in a     *)
(* browser and waits for its redirect to a port of this machine            *)
(* (crates/cli/src/main.rs, crates/cli/src/config.rs,                      *)
(* crates/server/src/api/auth.rs).  Every command loads the whole file     *)
(* first and saves the whole file last, however long it waits in between.  *)
(***************************************************************************)
EXTENDS Naturals, Sequences, SequencesExt

CONSTANTS Configs,  \* runs of `borehole config`
          Logins,   \* runs of `borehole login`
          None

Commands == Configs \cup Logins

ASSUME LoginAssumption == Configs \cap Logins = {} /\ None \notin Commands

VARIABLES
  file,       \* ~/.borehole.json
  pc,         \* each command
  cfg,        \* the settings it has loaded
  page,       \* the browser tab of each login
  backlog,    \* connections to the callback port that were not accepted
  line,       \* what the accepted connection sends: callback, other, silent or none
  \* what has happened
  intended,   \* the settings, had every save only changed what its command changes
  stale,      \* commands during which another one has begun to save
  disturbed   \* a save of a stale command, or one that was killed

browserVars == <<page, backlog>>
historyVars == <<intended, stale, disturbed>>
vars == <<file, pc, cfg, browserVars, line, historyVars>>

-----------------------------------------------------------------------------
(* What the redirect carries.  The expiry is a time like 00:00:00+00:00; the token *)
(* itself has no character that is encoded.                                         *)

Expiry == <<"0", ":", "0", "+", "0">>

\* Fault for the mutation runs: "+" is taken for an unreserved character.
EncodeByte_KeepsPlus(b) == IF b = ":" THEN <<"%", "3", "A">> ELSE <<b>>

EncodeByte(b) == CASE b = ":" -> <<"%", "3", "A">>
                   [] b = "+" -> <<"%", "2", "B">>
                   [] OTHER -> <<b>>

percent_encode(input) == FlattenSeq([i \in DOMAIN input |-> EncodeByte(input[i])])

Hex == {"0", "2", "3", "A", "B"}
Byte(h, l) == CASE <<h, l>> = <<"3", "A">> -> ":"
                [] <<h, l>> = <<"2", "B">> -> "+"
                [] OTHER -> "?"

\* %XX and "+"; a "%" without two digits after it stays.
percent_decode(input) ==
  LET decoded[i \in 1 .. Len(input) + 1] ==
        IF i > Len(input) THEN <<>>
        ELSE IF input[i] = "%" /\ i + 2 <= Len(input) /\ {input[i + 1], input[i + 2]} \subseteq Hex
        THEN <<Byte(input[i + 1], input[i + 2])>> \o decoded[i + 3]
        ELSE <<IF input[i] = "+" THEN " " ELSE input[i]>> \o decoded[i + 1]
  IN decoded[1]

-----------------------------------------------------------------------------
(* The file *)

Settings == [server : Configs \cup {None}, jwt : Logins \cup {None},
             expires : {<<>>, Expiry, percent_decode(percent_encode(Expiry))}]
Default == [server |-> None, jwt |-> None, expires |-> <<>>]

Absent == [status |-> "absent"]
Torn == [status |-> "torn"]
Whole(settings) == [status |-> "whole", settings |-> settings]

InFlight == {"prompt", "listen", "read", "create", "write"}
Over == {"done", "failed", "killed"}

Init == /\ file = Absent
        /\ pc = [c \in Commands |-> "load"]
        /\ cfg = [c \in Commands |-> Default]
        /\ page = [c \in Logins |-> "none"]
        /\ backlog = [c \in Logins |-> <<>>]
        /\ line = [c \in Logins |-> "none"]
        /\ intended = Default
        /\ stale = {}
        /\ disturbed = FALSE

Goes(c, from, to) == pc[c] = from /\ pc' = [pc EXCEPT ![c] = to]

\* No file is the default; one that cannot be parsed ends any command.
Load(c) ==
  /\ \/ /\ file # Torn
        /\ Goes(c, "load", IF c \in Configs THEN "prompt" ELSE "listen")
        /\ cfg' = [cfg EXCEPT ![c] = IF file = Absent THEN Default ELSE file.settings]
     \/ /\ file = Torn
        /\ Goes(c, "load", "failed")
        /\ UNCHANGED cfg
  /\ UNCHANGED <<file, browserVars, line, historyVars>>

\* save is fs::write: truncate, then write from the start.
Truncate(c) ==
  /\ Goes(c, "create", "write")
  /\ file' = Torn
  /\ stale' = stale \cup {d \in Commands \ {c} : pc[d] \in InFlight}
  /\ UNCHANGED <<cfg, browserVars, line, intended, disturbed>>

\* Over what another command has written meanwhile, all of it or the head.
Write(c) ==
  /\ Goes(c, "write", "done")
  /\ file' \in {Whole(cfg[c])} \cup (IF file = Torn THEN {} ELSE {Torn})
  /\ intended' = IF c \in Configs THEN [intended EXCEPT !.server = c]
                 ELSE [intended EXCEPT !.jwt = c, !.expires = Expiry]
  /\ disturbed' = (disturbed \/ c \in stale)
  /\ UNCHANGED <<cfg, browserVars, line, stale>>

-----------------------------------------------------------------------------
(* run_config: the flags, or the answers of the user *)

Answer(c) == /\ Goes(c, "prompt", "create")
             /\ cfg' = [cfg EXCEPT ![c].server = c]
             /\ UNCHANGED <<file, browserVars, line, historyVars>>

-----------------------------------------------------------------------------
(* run_login *)

\* The browser opens the login page.
OpenPage(c) == /\ pc[c] = "listen" /\ page[c] = "none"
               /\ page' = [page EXCEPT ![c] = "form"]
               /\ UNCHANGED <<file, pc, cfg, backlog, line, historyVars>>

AcceptCallback(c) == /\ backlog[c] # <<>>
                     /\ Goes(c, "listen", "read")
                     /\ line' = [line EXCEPT ![c] = Head(backlog[c])]
                     /\ backlog' = [backlog EXCEPT ![c] = Tail(@)]
                     /\ UNCHANGED <<file, cfg, page, historyVars>>

\* Fault: the timer is not armed once the page is open.
TimeOut_FormOnly(c) == /\ page[c] = "none"
                       /\ Goes(c, "listen", "failed")
                       /\ UNCHANGED <<file, cfg, browserVars, line, historyVars>>

\* 300 s without a connection.
TimeOut(c) == /\ Goes(c, "listen", "failed")
              /\ UNCHANGED <<file, cfg, browserVars, line, historyVars>>

\* The request line, answered and parsed: without a token the login has failed.  No
\* timer runs any more for a connection that sends nothing.
ReadCallback(c) ==
  /\ \/ /\ line[c] = "callback"
        /\ Goes(c, "read", "create")
        /\ cfg' = [cfg EXCEPT ![c].jwt = c,
                              ![c].expires = percent_decode(percent_encode(Expiry))]
     \/ /\ line[c] = "other"
        /\ Goes(c, "read", "failed")
        /\ UNCHANGED cfg
  /\ UNCHANGED <<file, browserVars, line, historyVars>>

-----------------------------------------------------------------------------
(* The browser and the server's page *)

\* A valid login is redirected to the callback, where somebody may be listening; an
\* invalid one shows the form again.
Submit(c) ==
  /\ page[c] = "form"
  /\ \/ /\ pc[c] \in InFlight
        /\ page' = [page EXCEPT ![c] = "redirected"]
        /\ backlog' = [backlog EXCEPT ![c] = Append(@, "callback")]
     \/ /\ pc[c] \in Over
        /\ page' = [page EXCEPT ![c] = "refused"]
        /\ UNCHANGED backlog
  /\ UNCHANGED <<file, pc, cfg, line, historyVars>>

\* Other connections to the port: a request for something else, or a connection that is
\* opened ahead of a request and may be closed without one.
Connect(c) ==
  /\ pc[c] = "listen" /\ backlog[c] = <<>>
  /\ \E kind \in {"other", "silent"} : backlog' = [backlog EXCEPT ![c] = <<kind>>]
  /\ UNCHANGED <<file, pc, cfg, page, line, historyVars>>

CloseSilent(c) == /\ line[c] = "silent" /\ pc[c] = "read"
                  /\ line' = [line EXCEPT ![c] = "other"]
                  /\ UNCHANGED <<file, pc, cfg, browserVars, historyVars>>

\* Ctrl+C, at a prompt, in the wait, or in the middle of a save.
Kill(c) == /\ pc[c] \in InFlight
           /\ pc' = [pc EXCEPT ![c] = "killed"]
           /\ disturbed' = (disturbed \/ pc[c] = "write")
           /\ UNCHANGED <<file, cfg, browserVars, line, intended, stale>>

-----------------------------------------------------------------------------
(* The specification *)

RunLogin(c) == AcceptCallback(c) \/ TimeOut(c) \/ ReadCallback(c)

Save(c) == Truncate(c) \/ Write(c)

Next == \/ \E c \in Commands : Load(c) \/ Save(c) \/ Kill(c)
        \/ \E c \in Configs : Answer(c)
        \/ \E c \in Logins : RunLogin(c) \/ OpenPage(c) \/ Submit(c) \/ Connect(c) \/ CloseSilent(c)

Spec == Init /\ [][Next]_vars

\* The commands go on, but for the user, the browser and what is sent to the port.
FairSpec == /\ Spec
            /\ \A c \in Commands : WF_vars(Save(c))
            /\ \A c \in Logins : WF_vars(RunLogin(c))

-----------------------------------------------------------------------------
(* Properties *)

TypeOK == /\ file \in {Absent, Torn} \cup {Whole(s) : s \in Settings}
          /\ pc \in [Commands -> {"load"} \cup InFlight \cup Over]
          /\ cfg \in [Commands -> Settings]
          /\ page \in [Logins -> {"none", "form", "redirected", "refused"}]
          /\ backlog \in [Logins -> Seq({"callback", "other", "silent"})]
          /\ line \in [Logins -> {"none", "callback", "other", "silent"}]
          /\ intended \in Settings
          /\ stale \subseteq Commands
          /\ disturbed \in BOOLEAN

\* The file holds what its commands were told, each setting from the last command that
\* changed it, and the expiry of the token as the server stated it, unless two commands
\* overlapped or one was killed while it saved.
SettingsKept ==
  ~disturbed /\ (\A c \in Commands : pc[c] # "write")
    => file = IF intended = Default THEN Absent ELSE Whole(intended)

\* A login that waits comes to its end, unless the first connection to its port sends
\* nothing at all.
LoginEnds == \A c \in Logins : pc[c] = "listen" ~> pc[c] \in Over \/ line[c] = "silent"
=============================================================================
