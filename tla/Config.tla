------------------------------- MODULE Config -------------------------------
(***************************************************************************)
(* config.json and the programs that read and rewrite it.                  *)
(*                                                                         *)
(* `yuno-wings configure` merges the panel's answer with the file that is  *)
(* there, the daemon loads it once at its start, and install.sh enters the *)
(* certificate it obtained.  Each rewrites the file in place: it truncates *)
(* it in one step and writes in another, and may die between the two.      *)
(***************************************************************************)
EXTENDS Naturals

CONSTANTS
  Tokens,     \* the panel's tokens for this node: it may issue a new one
  Own,        \* a token that config.Default draws
  None,       \* no token
  Offers,     \* which of the certificate paths an answer of the panel brings
  MaxDeaths,  \* bound: processes that die or are stopped
  Absent, Torn \* the file is not there; it is there and does not parse

Paths == {"none", "host", "panel"}
Configs == [token : Tokens \cup {Own}, cert : Paths, key : Paths]

ASSUME ConfigAssumption ==
  /\ Offers \subseteq SUBSET {"cert", "key"}
  /\ MaxDeaths \in Nat
  /\ Own \notin Tokens /\ None \notin Tokens \cup {Own}
  /\ Absent \notin Configs /\ Torn \notin Configs /\ Absent # Torn

Procs == {"configure", "daemon", "certbot"}

VARIABLES
  file,       \* the contents of config.json
  pc,         \* the next step of each process
  held,       \* the Config each has in memory
  deaths,
  issued,     \* the token the panel sent to the configure that runs (history)
  configured, \* the token that the last configure to succeed was to enter, None
              \* when the file was removed since (history)
  hostTLS,    \* the host's certificate was entered, and since then no configure
              \* has entered one of the panel's or gone on after a Load that had
              \* failed, and the file was not removed (history)
  knew,       \* configured, when the daemon that runs was started (history)
  overlap,    \* two processes worked on the file at a time, or it was removed
              \* under one (history)
  hurt,       \* the last process to truncate the file failed or died before it
              \* had written (history)
  half        \* the panel sent one of certificate and key without the other (history)

history == <<issued, configured, hostTLS, knew, overlap, hurt, half>>
vars == <<file, pc, held, deaths, history>>

TypeOK ==
  /\ file \in Configs \cup {Absent, Torn}
  /\ pc \in [Procs -> {"idle", "load", "truncateDefault", "writeDefault",
                       "truncate", "write", "listen", "serve"}]
  /\ held \in [Procs -> Configs]
  /\ deaths \in 0..MaxDeaths
  /\ {issued, configured, knew} \subseteq Tokens \cup {None}
  /\ hostTLS \in BOOLEAN
  /\ overlap \in BOOLEAN /\ hurt \in BOOLEAN /\ half \in BOOLEAN

(* config.Default: a token of its own, no certificate.                     *)
Default == [token |-> Own, cert |-> "none", key |-> "none"]

Init ==
  /\ file = Absent
  /\ pc = [p \in Procs |-> "idle"]
  /\ held = [p \in Procs |-> Default]
  /\ deaths = 0
  /\ issued = None /\ configured = None /\ knew = None
  /\ hostTLS = FALSE
  /\ overlap = FALSE /\ hurt = FALSE /\ half = FALSE

Readable == file \in Configs
Busy == {p \in Procs : pc[p] \notin {"idle", "serve"}}

Goto(p, step) == pc' = [pc EXCEPT ![p] = step]
Hold(p, c) == held' = [held EXCEPT ![p] = c]

(* A process goes on, or it ends and what was in its memory is lost.       *)
Continue(p, step) == Goto(p, step) /\ UNCHANGED <<held, issued, knew>>
End(p) ==
  /\ Goto(p, "idle")
  /\ Hold(p, Default)
  /\ issued' = IF p = "configure" THEN None ELSE issued
  /\ knew' = IF p = "daemon" THEN None ELSE knew

Begin(p) ==
  /\ pc[p] = "idle"
  /\ Goto(p, "load")
  /\ overlap' = (overlap \/ Busy # {})

-----------------------------------------------------------------------------
(* Starting one of the programs *)

Answer(token, offer) ==
  [token |-> token,
   cert |-> IF "cert" \in offer THEN "panel" ELSE "none",
   key |-> IF "key" \in offer THEN "panel" ELSE "none"]

(* runConfigure, when the panel has answered; without an answer it returns *)
(* before it has touched anything.  The token is the panel's: a new one,   *)
(* or the one it sent before.                                              *)
Configure(token, offer) ==
  /\ Begin("configure")
  /\ Hold("configure", Answer(token, offer))
  /\ issued' = token
  /\ half' = (half \/ offer \in {{"cert"}, {"key"}})
  /\ UNCHANGED <<file, deaths, configured, hostTLS, knew, hurt>>

(* systemd starts the daemon, and again whenever it has ended.             *)
StartDaemon ==
  /\ Begin("daemon")
  /\ knew' = configured
  /\ UNCHANGED <<file, held, deaths, issued, configured, hostTLS, hurt, half>>

SetupTLS ==
  /\ Begin("certbot")
  /\ UNCHANGED <<file, held, deaths, issued, configured, hostTLS, knew, hurt, half>>

-----------------------------------------------------------------------------
(* config.Load *)

(* Mutant: a configure that takes what the panel sent as it is.            *)
MergeNot(cfg, existing) == cfg

(* Mutant: the key is not preserved.                                       *)
MergeCertOnly(cfg, existing) ==
  [cfg EXCEPT !.cert = IF @ = "none" THEN existing.cert ELSE @]

(* Mutant: the token is preserved like the paths.                          *)
MergeToken(cfg, existing) ==
  [cfg EXCEPT !.token = existing.token,
              !.cert = IF @ = "none" THEN existing.cert ELSE @,
              !.key = IF @ = "none" THEN existing.key ELSE @]

(* "Preserve host-local settings the panel doesn't know about."            *)
Merge(cfg, existing) ==
  [cfg EXCEPT !.cert = IF @ = "none" THEN existing.cert ELSE @,
              !.key = IF @ = "none" THEN existing.key ELSE @]

(* setup_tls points the config at the certificate that certbot obtained.   *)
HostPaths(c) == [c EXCEPT !.cert = "host", !.key = "host"]

Kept == <<file, deaths, configured, overlap, hurt, half>>

(* The file is there and parses.                                           *)
LoadParsed(p) ==
  /\ pc[p] = "load"
  /\ Readable
  /\ \/ /\ p = "configure"
        /\ Hold(p, Merge(held[p], file))
        /\ Goto(p, "truncate")
     \/ /\ p = "daemon"
        /\ Hold(p, file)
        /\ Goto(p, "listen")
     \/ /\ p = "certbot"
        /\ Hold(p, HostPaths(file))
        /\ Goto(p, "truncate")
  /\ UNCHANGED <<issued, knew, hostTLS, Kept>>

(* Mutant: a file that does not parse is replaced by a default one.        *)
LoadMissingOrTorn(p) ==
  /\ pc[p] = "load"
  /\ ~Readable
  /\ IF p = "certbot" THEN End(p) ELSE Continue(p, "truncateDefault")
  /\ UNCHANGED <<hostTLS, Kept>>

(* There is none: Load goes on to write a default one; jq gives up.        *)
LoadMissing(p) ==
  /\ pc[p] = "load"
  /\ file = Absent
  /\ IF p = "certbot" THEN End(p) ELSE Continue(p, "truncateDefault")
  /\ UNCHANGED <<hostTLS, Kept>>

(* Load returns an error: main exits, configure goes on without a merge.   *)
LoadError(p) ==
  /\ IF p = "configure" THEN Continue(p, "truncate") ELSE End(p)
  /\ hostTLS' = (hostTLS /\ p # "configure")

LoadTorn(p) ==
  /\ pc[p] = "load"
  /\ file = Torn
  /\ LoadError(p)
  /\ UNCHANGED Kept

-----------------------------------------------------------------------------
(* config.Save: os.WriteFile *)

Truncate(p) ==
  /\ \/ pc[p] = "truncateDefault" /\ Continue(p, "writeDefault")
     \/ pc[p] = "truncate" /\ Continue(p, "write")
  /\ file' = Torn
  /\ hurt' = FALSE
  /\ UNCHANGED <<deaths, configured, hostTLS, overlap, half>>

(* Bytes written into a file that somebody else filled in the meantime     *)
(* may leave the end of a longer one; a removed file stays away.           *)
Written(c) ==
  IF Readable THEN {c, Torn} ELSE IF file = Torn THEN {c} ELSE {Absent}

(* The default config is on disk: for the daemon that is all ("wrote       *)
(* default config"), configure has nothing to take from it.                *)
WriteDefault(p) ==
  /\ pc[p] = "writeDefault"
  /\ file' \in Written(Default)
  /\ IF p = "configure" THEN Continue(p, "truncate") ELSE End(p)
  /\ UNCHANGED <<deaths, configured, hostTLS, overlap, hurt, half>>

Write(p) ==
  /\ pc[p] = "write"
  /\ file' \in Written(held[p])
  /\ End(p)
  /\ configured' = IF p = "configure" THEN issued ELSE configured
  /\ hostTLS' = (p = "certbot" \/ (hostTLS /\ "panel" \notin {held[p].cert, held[p].key}))
  /\ UNCHANGED <<deaths, overlap, hurt, half>>

(* The file cannot be opened, or not be filled for want of space.          *)
SaveFails(p) ==
  /\ \/ pc[p] \in {"truncateDefault", "writeDefault"} /\ LoadError(p)
     \/ pc[p] \in {"truncate", "write"} /\ End(p) /\ UNCHANGED hostTLS
  /\ IF pc[p] \in {"writeDefault", "write"} /\ file # Absent
     THEN file' = Torn /\ hurt' = TRUE
     ELSE UNCHANGED <<file, hurt>>
  /\ UNCHANGED <<deaths, configured, overlap, half>>

-----------------------------------------------------------------------------
(* The daemon *)

TLSEnabled(c) == c.cert # "none" /\ c.key # "none"

(* Mutant: without asking TLSEnabled.                                      *)
ListenTLS ==
  /\ pc["daemon"] = "listen"
  /\ IF held["daemon"].cert = held["daemon"].key /\ held["daemon"].cert # "none"
     THEN Continue("daemon", "serve")
     ELSE End("daemon")
  /\ UNCHANGED <<file, deaths, configured, hostTLS, overlap, hurt, half>>

(* A certificate with another one's key is refused, and the daemon exits.  *)
Servable(c) == TLSEnabled(c) => c.cert = c.key

Listen ==
  /\ pc["daemon"] = "listen"
  /\ IF Servable(held["daemon"])
     THEN Continue("daemon", "serve")
     ELSE End("daemon")
  /\ UNCHANGED <<file, deaths, configured, hostTLS, overlap, hurt, half>>

(* The auth middleware and verifyWSToken: the token loaded at the start.   *)
Accepts(token) == pc["daemon"] = "serve" /\ held["daemon"].token = token

(* A process is killed or stopped, or the host goes down under it.         *)
Dies(p) ==
  /\ pc[p] # "idle"
  /\ deaths < MaxDeaths
  /\ deaths' = deaths + 1
  /\ hurt' = (hurt \/ pc[p] \in {"writeDefault", "write"})
  /\ End(p)
  /\ UNCHANGED <<file, configured, hostTLS, overlap, half>>

(* The operator removes the file; install.sh advises it: "delete it to     *)
(* reconfigure" (install.sh:196).                                          *)
Remove ==
  /\ file # Absent
  /\ file' = Absent
  /\ configured' = None /\ hostTLS' = FALSE
  /\ overlap' = (overlap \/ Busy # {})
  /\ UNCHANGED <<pc, held, deaths, issued, knew, hurt, half>>

Step(p) ==
  \/ LoadParsed(p) \/ LoadMissing(p) \/ LoadTorn(p)
  \/ Truncate(p) \/ WriteDefault(p) \/ Write(p)

Next ==
  \/ \E token \in Tokens, offer \in Offers : Configure(token, offer)
  \/ StartDaemon \/ SetupTLS \/ Listen \/ Remove
  \/ \E p \in Procs : Step(p) \/ SaveFails(p) \/ Dies(p)

(* systemd restarts the daemon for ever; the daemon's own steps happen.    *)
Fairness == WF_vars(StartDaemon) /\ WF_vars(Step("daemon")) /\ WF_vars(Listen)

Spec == Init /\ [][Next]_vars
FairSpec == Spec /\ Fairness

-----------------------------------------------------------------------------
(* Safety *)

(* Certificate and key in the file are of one origin, whatever crashes and *)
(* interleavings there were, as long as the panel sends both or neither:   *)
(* they are preserved one by one (configure.go:65-70).                     *)
Paired == ~half /\ Readable => file.cert = file.key

(* The file has the token that the last configure was sent, once that has  *)
(* succeeded: no restart, crash or failed write puts a fresh or an older   *)
(* one in its place, unless programs overlapped (configure.go:15-17,       *)
(* config.go:96-113).                                                      *)
TokenLasts ==
  configured # None /\ ~overlap /\ Readable => file.token = configured

(* The certificate entered on the host outlives every configure whose      *)
(* answer has none, except one that found a file it could not read and     *)
(* went on (configure.go:62-71).                                           *)
KeepsTLS ==
  hostTLS /\ ~overlap /\ ~half /\ Readable =>
    file.cert = "host" /\ file.key = "host"

(* A file that does not parse, with nobody saving it, is the trace of a    *)
(* crash or a failed write in Save, or of an overlap (config.go:122).      *)
TornExplained ==
  file = Torn /\ ~overlap /\ ~hurt =>
    \E p \in Procs : pc[p] \in {"writeDefault", "write"}

(* The one token a daemon accepts is what the last configure before its    *)
(* start was sent.  So a restart is what makes a new token count, and all  *)
(* it needs: until then the daemon refuses it and goes on accepting the    *)
(* old one, which the panel may have replaced (main.go:36-45,              *)
(* middleware.go:14-38, router/ws.go:253).                                 *)
AnswersPanel ==
  pc["daemon"] = "serve" /\ knew # None /\ ~overlap =>
    \A token \in Tokens \cup {Own} : Accepts(token) <=> token = knew

-----------------------------------------------------------------------------
(* Liveness *)

(* When the file parses and names no mismatched pair for good, the daemon  *)
(* comes up in the end and stays up, at whatever point it was before.      *)
ComesUp ==
  <>[](Readable /\ Servable(file)) => <>[](pc["daemon"] = "serve")
=============================================================================
