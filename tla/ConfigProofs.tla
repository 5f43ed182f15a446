---------------------------- MODULE ConfigProofs ----------------------------
(* Proofs about Config, for any answers of the panel and any number of     *)
(* deaths.                                                                 *)
EXTENDS Config, TLAPS

-----------------------------------------------------------------------------
(* What the safety properties rest on *)

(* Without an overlap one process at a time is at work.                    *)
OneBusy == ~overlap => \A p, q \in Busy : p = q

(* Whoever saves alone writes into the file it has truncated.              *)
SavesIntoTorn ==
  ~overlap => \A p \in Procs : pc[p] \in {"writeDefault", "write"} => file = Torn

(* The daemon saves nothing but a default config.                          *)
DaemonReads == pc["daemon"] \notin {"truncate", "write"}

(* A Config in memory pairs certificate and key.                           *)
PairedHeld == ~half => \A p \in Procs : held[p].cert = held[p].key

(* What is about to be written once a token of the panel's is in the file. *)
HeldToken ==
  /\ pc["configure"] # "idle" => held["configure"].token = issued
  /\ configured # None /\ ~overlap =>
       /\ file # Absent
       /\ \A p \in Procs : pc[p] \notin {"truncateDefault", "writeDefault"}
       /\ pc["certbot"] \in {"truncate", "write"} => held["certbot"].token = configured

(* The daemon's token: of the file as it was when the daemon started,      *)
(* whatever configure has written since.                                   *)
DaemonToken ==
  knew # None /\ ~overlap =>
    /\ pc["daemon"] = "load" => configured = knew
    /\ pc["daemon"] \in {"listen", "serve"} => held["daemon"].token = knew

(* The host's certificate is in what is about to be written, or the        *)
(* panel's, whose saving ends hostTLS.                                     *)
HeldTLS ==
  /\ pc["certbot"] \in {"truncate", "write"} =>
       held["certbot"].cert = "host" /\ held["certbot"].key = "host"
  /\ hostTLS /\ ~overlap =>
       /\ file # Absent
       /\ \A p \in Procs : pc[p] \notin {"truncateDefault", "writeDefault"}
       /\ pc["configure"] \in {"truncate", "write"} /\ ~half =>
            held["configure"].cert # "none"

IInv ==
  /\ TypeOK /\ DaemonReads /\ OneBusy /\ SavesIntoTorn /\ PairedHeld /\ HeldToken
  /\ DaemonToken /\ HeldTLS
  /\ Paired /\ TokenLasts /\ KeepsTLS /\ TornExplained

-----------------------------------------------------------------------------
(* Operators *)

(* What Merge takes from which side.                                       *)
LEMMA MergeFacts ==
  ASSUME NEW c \in Configs, NEW e \in Configs
  PROVE  /\ Merge(c, e) \in Configs
         /\ Merge(c, e).token = c.token
         /\ Merge(c, e).cert = IF c.cert = "none" THEN e.cert ELSE c.cert
         /\ Merge(c, e).key = IF c.key = "none" THEN e.key ELSE c.key
BY DEF Merge, Configs, Paths

(* What install.sh enters.                                                 *)
LEMMA HostPathsFacts ==
  ASSUME NEW c \in Configs
  PROVE  /\ HostPaths(c) \in Configs
         /\ HostPaths(c).token = c.token
         /\ HostPaths(c).cert = "host" /\ HostPaths(c).key = "host"
BY DEF HostPaths, Configs, Paths

(* The panel sends a token and, of the paths, both or neither unless the   *)
(* answer is half.                                                         *)
LEMMA AnswerFacts ==
  ASSUME NEW token \in Tokens, NEW offer \in Offers
  PROVE  /\ Answer(token, offer) \in Configs
         /\ Answer(token, offer).token = token
         /\ offer \notin {{"cert"}, {"key"}} => Answer(token, offer).cert = Answer(token, offer).key
<1>1. Answer(token, offer) \in Configs /\ Answer(token, offer).token = token
  BY DEF Answer, Configs, Paths
<1>2. ASSUME offer \notin {{"cert"}, {"key"}}
      PROVE  "cert" \in offer <=> "key" \in offer
  BY <1>2, ConfigAssumption
<1> QED
  BY <1>1, <1>2 DEF Answer

(* The paths a Config may have.                                            *)
LEMMA PathFacts ==
  ASSUME NEW c \in Configs
  PROVE  c.cert \in {"none", "host", "panel"} /\ c.key \in {"none", "host", "panel"}
BY DEF Configs, Paths

(* The default config.                                                     *)
LEMMA DefaultFacts ==
  Default \in Configs /\ Default.cert = "none" /\ Default.key = "none"
BY DEF Default, Configs, Paths

(* Loading a file that parses, one case per program.                       *)
LEMMA LoadParsedFacts ==
  ASSUME TypeOK, NEW p \in Procs, LoadParsed(p)
  PROVE  /\ pc[p] = "load" /\ file \in Configs
         /\ \/ /\ p = "configure"
               /\ held' = [held EXCEPT !["configure"] = Merge(held["configure"], file)]
               /\ pc' = [pc EXCEPT !["configure"] = "truncate"]
            \/ /\ p = "daemon"
               /\ held' = [held EXCEPT !["daemon"] = file]
               /\ pc' = [pc EXCEPT !["daemon"] = "listen"]
            \/ /\ p = "certbot"
               /\ held' = [held EXCEPT !["certbot"] = HostPaths(file)]
               /\ pc' = [pc EXCEPT !["certbot"] = "truncate"]
         /\ UNCHANGED <<issued, knew, hostTLS, Kept>>
BY DEF LoadParsed, Readable, Hold, Goto

(* What the end of a Save leaves.                                          *)
LEMMA WriteFacts ==
  ASSUME TypeOK, NEW p \in Procs, Write(p)
  PROVE  /\ pc[p] = "write"
         /\ file' \in {held[p], Torn, Absent}
         /\ file = Torn => file' = held[p]
         /\ pc' = [pc EXCEPT ![p] = "idle"]
         /\ held' = [held EXCEPT ![p] = Default]
         /\ issued' = IF p = "configure" THEN None ELSE issued
         /\ knew' = IF p = "daemon" THEN None ELSE knew
         /\ configured' = IF p = "configure" THEN issued ELSE configured
         /\ p = "certbot" => hostTLS'
         /\ p # "certbot" =>
              (hostTLS' <=> hostTLS /\ held[p].cert # "panel" /\ held[p].key # "panel")
         /\ UNCHANGED <<deaths, overlap, hurt, half>>
<1>1. /\ pc[p] = "write" /\ file' \in Written(held[p])
      /\ pc' = [pc EXCEPT ![p] = "idle"]
      /\ held' = [held EXCEPT ![p] = Default]
      /\ issued' = IF p = "configure" THEN None ELSE issued
      /\ knew' = IF p = "daemon" THEN None ELSE knew
      /\ configured' = IF p = "configure" THEN issued ELSE configured
      /\ UNCHANGED <<deaths, overlap, hurt, half>>
  BY DEF Write, End, Goto, Hold
<1>2. /\ file' \in {held[p], Torn, Absent}
      /\ file = Torn => file' = held[p]
  BY <1>1, ConfigAssumption DEF Written, Readable
<1>3. /\ p = "certbot" => hostTLS'
      /\ p # "certbot" =>
           (hostTLS' <=> hostTLS /\ held[p].cert # "panel" /\ held[p].key # "panel")
  BY Zenon DEF Write
<1> QED
  BY <1>1, <1>2, <1>3

-----------------------------------------------------------------------------
(* Every step keeps it *)

(* Every step keeps the types.                                             *)
LEMMA TypeStep ==
  ASSUME TypeOK, [Next]_vars
  PROVE  TypeOK'
<1> USE ConfigAssumption, DefaultFacts
    DEF TypeOK, Procs, Goto, Continue, End, Hold, history, Kept, Readable
<1>1. ASSUME NEW token \in Tokens, NEW offer \in Offers, Configure(token, offer) PROVE TypeOK'
  BY <1>1, AnswerFacts DEF Configure, Begin, Hold
<1>2. CASE StartDaemon
  BY <1>2 DEF StartDaemon, Begin
<1>3. CASE SetupTLS
  BY <1>3 DEF SetupTLS, Begin
<1>4. ASSUME NEW p \in Procs, LoadParsed(p) PROVE TypeOK'
  <2> USE <1>4, LoadParsedFacts DEF Kept
  <2>1. CASE p = "configure"
    BY <2>1, MergeFacts
  <2>2. CASE p = "daemon"
    BY <2>2
  <2>3. CASE p = "certbot"
    BY <2>3, HostPathsFacts
  <2> QED
    BY <2>1, <2>2, <2>3 DEF Procs
<1>5. ASSUME NEW p \in Procs, LoadMissing(p) PROVE TypeOK'
  BY <1>5 DEF LoadMissing
<1>6. ASSUME NEW p \in Procs, LoadTorn(p) PROVE TypeOK'
  BY <1>6 DEF LoadTorn, LoadError
<1>7. ASSUME NEW p \in Procs, Truncate(p) PROVE TypeOK'
  <2>1. hurt' \in BOOLEAN
    BY <1>7, Zenon DEF Truncate
  <2>2. CASE pc[p] = "truncateDefault"
    BY <1>7, <2>1, <2>2 DEF Truncate
  <2>3. CASE pc[p] = "truncate"
    BY <1>7, <2>1, <2>3 DEF Truncate
  <2> QED
    BY <1>7, <2>2, <2>3 DEF Truncate
<1>8. ASSUME NEW p \in Procs, WriteDefault(p) PROVE TypeOK'
  BY <1>8 DEF WriteDefault, Written
<1>9. ASSUME NEW p \in Procs, Write(p) PROVE TypeOK'
  <2>1. hostTLS' \in BOOLEAN
    BY <1>9, Zenon DEF Write
  <2> QED
    BY <1>9, <2>1, WriteFacts
<1>10. ASSUME NEW p \in Procs, SaveFails(p) PROVE TypeOK'
  <2>1. hurt' \in BOOLEAN /\ hostTLS' \in BOOLEAN
    BY <1>10, Zenon DEF SaveFails, LoadError
  <2> QED
    BY <1>10, <2>1 DEF SaveFails, LoadError
<1>11. CASE Listen
  BY <1>11 DEF Listen, Servable, TLSEnabled
<1>12. ASSUME NEW p \in Procs, Dies(p) PROVE TypeOK'
  BY <1>12 DEF Dies
<1>13. CASE Remove
  <2>1. overlap' \in BOOLEAN /\ hostTLS' \in BOOLEAN
    BY <1>13, Zenon DEF Remove
  <2> QED
    BY <1>13, <2>1 DEF Remove
<1>14. CASE UNCHANGED vars
  BY <1>14 DEF vars, history
<1> QED
  BY <1>1, <1>2, <1>3, <1>4, <1>5, <1>6, <1>7, <1>8, <1>9, <1>10, <1>11, <1>12, <1>13, <1>14
     DEF Next, Step

(* The daemon only ever saves what Load makes up.                          *)
LEMMA RoleStep ==
  ASSUME TypeOK, DaemonReads, [Next]_vars
  PROVE  DaemonReads'
<1> USE DEF TypeOK, DaemonReads, Procs, Goto, Continue, End, Hold
<1>1. CASE \E token \in Tokens, offer \in Offers : Configure(token, offer)
  BY <1>1 DEF Configure, Begin
<1>2. CASE StartDaemon \/ SetupTLS \/ Listen \/ Remove \/ UNCHANGED vars
  BY <1>2 DEF StartDaemon, SetupTLS, Begin, Listen, Remove, vars
<1>3. ASSUME NEW p \in Procs, Step(p) PROVE DaemonReads'
  <2>1. CASE LoadParsed(p) \/ LoadMissing(p) \/ LoadTorn(p)
    BY <2>1 DEF LoadParsed, LoadMissing, LoadTorn, LoadError
  <2>2. CASE Truncate(p) \/ WriteDefault(p) \/ Write(p)
    BY <2>2 DEF Truncate, WriteDefault, Write
  <2> QED
    BY <1>3, <2>1, <2>2 DEF Step
<1>4. ASSUME NEW p \in Procs, SaveFails(p) \/ Dies(p) PROVE DaemonReads'
  BY <1>4 DEF SaveFails, LoadError, Dies
<1> QED
  BY <1>1, <1>2, <1>3, <1>4 DEF Next

(* Merging and saving keep pairs together.                                 *)
LEMMA PairStep ==
  ASSUME TypeOK, PairedHeld, Paired, [Next]_vars
  PROVE  PairedHeld' /\ Paired'
<1> USE ConfigAssumption, DefaultFacts
    DEF TypeOK, Procs, Goto, Continue, End, Hold, history, Kept, Readable, PairedHeld, Paired
<1>1. ASSUME NEW token \in Tokens, NEW offer \in Offers, Configure(token, offer) PROVE PairedHeld' /\ Paired'
  BY <1>1, AnswerFacts DEF Configure, Begin, Hold
<1>2. CASE StartDaemon
  BY <1>2 DEF StartDaemon, Begin
<1>3. CASE SetupTLS
  BY <1>3 DEF SetupTLS, Begin
<1>4. ASSUME NEW p \in Procs, LoadParsed(p) PROVE PairedHeld' /\ Paired'
  <2> USE <1>4, LoadParsedFacts DEF Kept
  <2>1. CASE p = "configure"
    BY <2>1, MergeFacts
  <2>2. CASE p = "daemon"
    BY <2>2
  <2>3. CASE p = "certbot"
    BY <2>3, HostPathsFacts
  <2> QED
    BY <2>1, <2>2, <2>3 DEF Procs
<1>5. ASSUME NEW p \in Procs, LoadMissing(p) PROVE PairedHeld' /\ Paired'
  BY <1>5 DEF LoadMissing
<1>6. ASSUME NEW p \in Procs, LoadTorn(p) PROVE PairedHeld' /\ Paired'
  BY <1>6 DEF LoadTorn, LoadError
<1>7. ASSUME NEW p \in Procs, Truncate(p) PROVE PairedHeld' /\ Paired'
  BY <1>7 DEF Truncate
<1>8. ASSUME NEW p \in Procs, WriteDefault(p) PROVE PairedHeld' /\ Paired'
  BY <1>8 DEF WriteDefault, Written
<1>9. ASSUME NEW p \in Procs, Write(p) PROVE PairedHeld' /\ Paired'
  BY <1>9 DEF Write, Written
<1>10. ASSUME NEW p \in Procs, SaveFails(p) PROVE PairedHeld' /\ Paired'
  BY <1>10 DEF SaveFails, LoadError
<1>11. CASE Listen
  BY <1>11 DEF Listen, Servable, TLSEnabled
<1>12. ASSUME NEW p \in Procs, Dies(p) PROVE PairedHeld' /\ Paired'
  BY <1>12 DEF Dies
<1>13. CASE Remove
  BY <1>13 DEF Remove
<1>14. CASE UNCHANGED vars
  BY <1>14 DEF vars, history
<1> QED
  BY <1>1, <1>2, <1>3, <1>4, <1>5, <1>6, <1>7, <1>8, <1>9, <1>10, <1>11, <1>12, <1>13, <1>14
     DEF Next, Step

(* One process at a time finds its own truncation when it writes.          *)
LEMMA AloneStep ==
  ASSUME TypeOK, OneBusy, SavesIntoTorn, TornExplained, [Next]_vars
  PROVE  OneBusy' /\ SavesIntoTorn' /\ TornExplained'
<1> USE ConfigAssumption, DefaultFacts
    DEF TypeOK, Procs, Goto, Continue, End, Hold, history, Kept, Readable, Busy, OneBusy, SavesIntoTorn, TornExplained
<1>1. ASSUME NEW token \in Tokens, NEW offer \in Offers, Configure(token, offer) PROVE OneBusy' /\ SavesIntoTorn' /\ TornExplained'
  BY <1>1, AnswerFacts DEF Configure, Begin, Hold
<1>2. CASE StartDaemon
  BY <1>2 DEF StartDaemon, Begin
<1>3. CASE SetupTLS
  BY <1>3 DEF SetupTLS, Begin
<1>4. ASSUME NEW p \in Procs, LoadParsed(p) PROVE OneBusy' /\ SavesIntoTorn' /\ TornExplained'
  BY <1>4 DEF LoadParsed, Hold, Merge
<1>5. ASSUME NEW p \in Procs, LoadMissing(p) PROVE OneBusy' /\ SavesIntoTorn' /\ TornExplained'
  BY <1>5 DEF LoadMissing
<1>6. ASSUME NEW p \in Procs, LoadTorn(p) PROVE OneBusy' /\ SavesIntoTorn' /\ TornExplained'
  BY <1>6 DEF LoadTorn, LoadError
<1>7. ASSUME NEW p \in Procs, Truncate(p) PROVE OneBusy' /\ SavesIntoTorn' /\ TornExplained'
  BY <1>7 DEF Truncate
<1>8. ASSUME NEW p \in Procs, WriteDefault(p) PROVE OneBusy' /\ SavesIntoTorn' /\ TornExplained'
  BY <1>8 DEF WriteDefault, Written
<1>9. ASSUME NEW p \in Procs, Write(p) PROVE OneBusy' /\ SavesIntoTorn' /\ TornExplained'
  BY <1>9 DEF Write, Written
<1>10. ASSUME NEW p \in Procs, SaveFails(p) PROVE OneBusy' /\ SavesIntoTorn' /\ TornExplained'
  BY <1>10 DEF SaveFails, LoadError
<1>11. CASE Listen
  BY <1>11 DEF Listen, Servable, TLSEnabled
<1>12. ASSUME NEW p \in Procs, Dies(p) PROVE OneBusy' /\ SavesIntoTorn' /\ TornExplained'
  BY <1>12 DEF Dies
<1>13. CASE Remove
  BY <1>13 DEF Remove
<1>14. CASE UNCHANGED vars
  BY <1>14 DEF vars, history
<1> QED
  BY <1>1, <1>2, <1>3, <1>4, <1>5, <1>6, <1>7, <1>8, <1>9, <1>10, <1>11, <1>12, <1>13, <1>14
     DEF Next, Step

(* The token last sent stays in the file, the one read in the daemon.      *)
LEMMA TokenStep ==
  ASSUME TypeOK, DaemonReads, OneBusy, SavesIntoTorn, HeldToken, DaemonToken, TokenLasts, [Next]_vars
  PROVE  HeldToken' /\ DaemonToken' /\ TokenLasts'
<1> USE ConfigAssumption, DefaultFacts
    DEF TypeOK, Procs, Goto, Continue, End, Hold, history, Kept, Readable, Busy, OneBusy, SavesIntoTorn, HeldToken, DaemonToken, TokenLasts
<1>1. ASSUME NEW token \in Tokens, NEW offer \in Offers, Configure(token, offer) PROVE HeldToken' /\ DaemonToken' /\ TokenLasts'
  BY <1>1, AnswerFacts DEF Configure, Begin, Hold
<1>2. CASE StartDaemon
  BY <1>2 DEF StartDaemon, Begin
<1>3. CASE SetupTLS
  BY <1>3 DEF SetupTLS, Begin
<1>4. ASSUME NEW p \in Procs, LoadParsed(p) PROVE HeldToken' /\ DaemonToken' /\ TokenLasts'
  <2> USE <1>4, LoadParsedFacts DEF Kept
  <2>1. CASE p = "configure"
    BY <2>1, MergeFacts
  <2>2. CASE p = "daemon"
    BY <2>2
  <2>3. CASE p = "certbot"
    BY <2>3, HostPathsFacts
  <2> QED
    BY <2>1, <2>2, <2>3 DEF Procs
<1>5. ASSUME NEW p \in Procs, LoadMissing(p) PROVE HeldToken' /\ DaemonToken' /\ TokenLasts'
  BY <1>5 DEF LoadMissing
<1>6. ASSUME NEW p \in Procs, LoadTorn(p) PROVE HeldToken' /\ DaemonToken' /\ TokenLasts'
  BY <1>6 DEF LoadTorn, LoadError
<1>7. ASSUME NEW p \in Procs, Truncate(p) PROVE HeldToken' /\ DaemonToken' /\ TokenLasts'
  BY <1>7 DEF Truncate
<1>8. ASSUME NEW p \in Procs, WriteDefault(p) PROVE HeldToken' /\ DaemonToken' /\ TokenLasts'
  BY <1>8 DEF WriteDefault, Written
<1>9. ASSUME NEW p \in Procs, Write(p) PROVE HeldToken' /\ DaemonToken' /\ TokenLasts'
  <2> USE <1>9, WriteFacts
  <2>1. CASE p = "configure"
    BY <2>1
  <2>2. p # "daemon"
    BY DEF DaemonReads
  <2>3. CASE p = "certbot"
    BY <2>3
  <2> QED
    BY <2>1, <2>2, <2>3
<1>10. ASSUME NEW p \in Procs, SaveFails(p) PROVE HeldToken' /\ DaemonToken' /\ TokenLasts'
  BY <1>10 DEF SaveFails, LoadError
<1>11. CASE Listen
  BY <1>11 DEF Listen, Servable, TLSEnabled
<1>12. ASSUME NEW p \in Procs, Dies(p) PROVE HeldToken' /\ DaemonToken' /\ TokenLasts'
  BY <1>12 DEF Dies
<1>13. CASE Remove
  BY <1>13 DEF Remove
<1>14. CASE UNCHANGED vars
  BY <1>14 DEF vars, history
<1> QED
  BY <1>1, <1>2, <1>3, <1>4, <1>5, <1>6, <1>7, <1>8, <1>9, <1>10, <1>11, <1>12, <1>13, <1>14
     DEF Next, Step

(* The host's certificate stays until one of the panel's replaces it.      *)
LEMMA TLSStep ==
  ASSUME TypeOK, DaemonReads, OneBusy, SavesIntoTorn, PairedHeld, HeldTLS, KeepsTLS, [Next]_vars
  PROVE  HeldTLS' /\ KeepsTLS'
<1> USE ConfigAssumption, DefaultFacts
    DEF TypeOK, Procs, Goto, Continue, End, Hold, history, Kept, Readable, Busy, OneBusy, SavesIntoTorn, PairedHeld, HeldTLS, KeepsTLS
<1>1. ASSUME NEW token \in Tokens, NEW offer \in Offers, Configure(token, offer) PROVE HeldTLS' /\ KeepsTLS'
  BY <1>1, AnswerFacts DEF Configure, Begin, Hold
<1>2. CASE StartDaemon
  BY <1>2 DEF StartDaemon, Begin
<1>3. CASE SetupTLS
  BY <1>3 DEF SetupTLS, Begin
<1>4. ASSUME NEW p \in Procs, LoadParsed(p) PROVE HeldTLS' /\ KeepsTLS'
  <2> USE <1>4, LoadParsedFacts DEF Kept
  <2>1. CASE p = "configure"
    BY <2>1, MergeFacts
  <2>2. CASE p = "daemon"
    BY <2>2
  <2>3. CASE p = "certbot"
    BY <2>3, HostPathsFacts
  <2> QED
    BY <2>1, <2>2, <2>3 DEF Procs
<1>5. ASSUME NEW p \in Procs, LoadMissing(p) PROVE HeldTLS' /\ KeepsTLS'
  BY <1>5 DEF LoadMissing
<1>6. ASSUME NEW p \in Procs, LoadTorn(p) PROVE HeldTLS' /\ KeepsTLS'
  BY <1>6 DEF LoadTorn, LoadError
<1>7. ASSUME NEW p \in Procs, Truncate(p) PROVE HeldTLS' /\ KeepsTLS'
  BY <1>7 DEF Truncate
<1>8. ASSUME NEW p \in Procs, WriteDefault(p) PROVE HeldTLS' /\ KeepsTLS'
  BY <1>8 DEF WriteDefault, Written
<1>9. ASSUME NEW p \in Procs, Write(p) PROVE HeldTLS' /\ KeepsTLS'
  <2> USE <1>9, WriteFacts
  <2>1. CASE p = "configure"
    BY <2>1, PathFacts
  <2>2. p # "daemon"
    BY DEF DaemonReads
  <2>3. CASE p = "certbot"
    BY <2>3
  <2> QED
    BY <2>1, <2>2, <2>3
<1>10. ASSUME NEW p \in Procs, SaveFails(p) PROVE HeldTLS' /\ KeepsTLS'
  BY <1>10 DEF SaveFails, LoadError
<1>11. CASE Listen
  BY <1>11 DEF Listen, Servable, TLSEnabled
<1>12. ASSUME NEW p \in Procs, Dies(p) PROVE HeldTLS' /\ KeepsTLS'
  BY <1>12 DEF Dies
<1>13. CASE Remove
  BY <1>13 DEF Remove
<1>14. CASE UNCHANGED vars
  BY <1>14 DEF vars, history
<1> QED
  BY <1>1, <1>2, <1>3, <1>4, <1>5, <1>6, <1>7, <1>8, <1>9, <1>10, <1>11, <1>12, <1>13, <1>14
     DEF Next, Step

-----------------------------------------------------------------------------
(* IInv holds in every reachable state. *)
THEOREM Invariance == Spec => []IInv
<1>1. Init => IInv
  <2> SUFFICES ASSUME Init PROVE IInv
    OBVIOUS
  <2> USE ConfigAssumption, DefaultFacts DEF Init, Procs
  <2>1. TypeOK
    <3>1. /\ file \in Configs \cup {Absent, Torn}
          /\ deaths \in 0..MaxDeaths
          /\ held \in [Procs -> Configs]
      OBVIOUS
    <3>2. pc \in [Procs -> {"idle", "load", "truncateDefault", "writeDefault",
                           "truncate", "write", "listen", "serve"}]
      OBVIOUS
    <3>3. /\ {issued, configured, knew} \subseteq Tokens \cup {None}
          /\ hostTLS \in BOOLEAN /\ overlap \in BOOLEAN
          /\ hurt \in BOOLEAN /\ half \in BOOLEAN
      BY Zenon
    <3> QED
      BY <3>1, <3>2, <3>3 DEF TypeOK
  <2>2. DaemonReads /\ OneBusy /\ SavesIntoTorn /\ TornExplained
    BY DEF DaemonReads, Busy, OneBusy, SavesIntoTorn, TornExplained
  <2>3. PairedHeld /\ Paired /\ KeepsTLS /\ TokenLasts
    BY DEF PairedHeld, Paired, KeepsTLS, TokenLasts, Readable
  <2>4. HeldToken /\ DaemonToken /\ HeldTLS
    BY DEF HeldToken, DaemonToken, HeldTLS
  <2> QED
    BY <2>1, <2>2, <2>3, <2>4 DEF IInv
<1>2. IInv /\ [Next]_vars => IInv'
  BY TypeStep, RoleStep, PairStep, AloneStep, TokenStep, TLSStep DEF IInv
<1> QED
  BY <1>1, <1>2, PTL DEF Spec

(* The types are correct.                                                  *)
THEOREM TypeCorrect == Spec => []TypeOK
<1>1. IInv => TypeOK
  BY DEF IInv
<1> QED
  BY <1>1, Invariance, PTL

(* Certificate and key in config.json stay of one origin, whatever crashes *)
(* and interleavings there were, while the panel sends both or neither     *)
(* (configure.go:65-70).                                                   *)
THEOREM PairedHolds == Spec => []Paired
<1>1. IInv => Paired
  BY DEF IInv
<1> QED
  BY <1>1, Invariance, PTL

(* A configured node keeps the token that the last configure was sent over *)
(* restarts, crashes and failed writes (configure.go:15-17).               *)
THEOREM TokenLastsHolds == Spec => []TokenLasts
<1>1. IInv => TokenLasts
  BY DEF IInv
<1> QED
  BY <1>1, Invariance, PTL

(* The host's certificate outlives every configure that could read the     *)
(* file and was sent none (configure.go:62-71).                            *)
THEOREM KeepsTLSHolds == Spec => []KeepsTLS
<1>1. IInv => KeepsTLS
  BY DEF IInv
<1> QED
  BY <1>1, Invariance, PTL

(* A config.json that does not parse comes of a crash or failed write in   *)
(* Save, or of an overlap (config.go:116-123).                             *)
THEOREM TornExplainedHolds == Spec => []TornExplained
<1>1. IInv => TornExplained
  BY DEF IInv
<1> QED
  BY <1>1, Invariance, PTL

(* A daemon accepts the token of the last configure before its start and   *)
(* no other, also when a later configure has entered a new one             *)
(* (main.go:36-45).                                                        *)
THEOREM AnswersPanelHolds == Spec => []AnswersPanel
<1>1. IInv => AnswersPanel
  BY DEF IInv, DaemonToken, AnswersPanel, Accepts
<1> QED
  BY <1>1, Invariance, PTL
=============================================================================
