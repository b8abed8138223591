---------------------------- MODULE Certificates ----------------------------
(* tls/: the certificates of custom domains and of the instance itself.  A   *)
(* sync spawns a task for every custom domain the store does not know; the   *)
(* task loads the files of the domain, or orders a certificate and writes    *)
(* them.  Another task renews what expires, once a day.  Both publish, in    *)
(* the map of the store, the challenge of an order and then Ready.           *)
EXTENDS Naturals

CONSTANTS
    Domains,        \* custom domains the database asks for
    Default,        \* the wildcard domain of the instance
    Tasks,          \* tasks insert_domain may have at work at once
    Renewer,        \* load() at first, then the task it spawns to renew
    MaxFaults       \* bound on failed requests and crashes

Names == Domains \union {Default}
Orderers == Tasks \union {Renewer}

ASSUME CertificateConstants ==
    /\ Default \notin Domains
    /\ Renewer \notin Tasks
    /\ MaxFaults \in Nat

VARIABLES
    domains,    \* CertificateStore.domains
    cert,       \* cert.pem of every name, on disk: how old it is, if there
    key,        \* key.pem of every name: whether it is the one of cert.pem
    writer,     \* who wrote cert.pem last
    valid,      \* names the authority has validated: it may skip a challenge
    pc,         \* where each task is
    target,     \* the name each task is at
    todo,       \* the domains the running renewal has yet to look at
    up,         \* load() has returned: the proxy starts and syncs begin
    served,     \* the default certificate the proxy has loaded: how old it is
    failed,     \* history: domains left with the challenge of a failed attempt
    torn,       \* history: names whose two files were not written as one
    interval,   \* the interval of the manager goes on with its syncs
    faults      \* history: failures and crashes so far

disk == <<cert, key, writer, torn>>
vars == <<domains, disk, valid, pc, target, todo, up, served, failed, interval, faults>>

Absent == [kind |-> "Absent"]
Ready == [kind |-> "Ready"]
Challenge(p) == [kind |-> "Challenge", by |-> p]
TlsStates == {Absent, Ready} \union {Challenge(p) : p \in Orderers}

(* The order of an attempt, from its first request to the last file.         *)
BeforeChallenge == {"order", "challenge"}
AfterChallenge == {"validate", "finalize", "write_key", "publish"}
Ordering == BeforeChallenge \union AfterChallenge
Steps == Ordering \union {"off", "load", "boot", "asleep", "next", "spin", "dead"}

(* A certificate is old when it expires within fifteen days, or has expired. *)
Ages == {"none", "fresh", "old"}

TypeOK ==
    /\ domains \in [Domains -> TlsStates]
    /\ cert \in [Names -> Ages]
    /\ key \in [Names -> {"none", "matching", "foreign"}]
    /\ writer \in [Names -> Orderers]
    /\ valid \subseteq Names
    /\ pc \in [Orderers -> Steps]
    /\ target \in [Orderers -> Names]
    /\ todo \subseteq Domains
    /\ up \in BOOLEAN
    /\ served \in Ages
    /\ failed \subseteq Domains
    /\ torn \subseteq Names
    /\ interval \in BOOLEAN
    /\ faults \in 0..MaxFaults
    /\ \A t \in Tasks : pc[t] \notin {"boot", "asleep", "next", "dead"} /\ target[t] \in Domains
    /\ pc[Renewer] \notin {"off", "load"}

(* The memory of a process that has just started.                            *)
Idle == [p \in Orderers |-> IF p = Renewer THEN "boot" ELSE "off"]

Init ==
    /\ domains = [d \in Domains |-> Absent]
    /\ cert = [n \in Names |-> "none"]
    /\ key = [n \in Names |-> "none"]
    /\ writer = [n \in Names |-> Renewer]
    /\ valid = {}
    /\ pc = Idle
    /\ target \in [Orderers -> Names]
    /\ \A t \in Tasks : target[t] \in Domains
    /\ target[Renewer] = Default
    /\ todo = {}
    /\ up = FALSE
    /\ served = "none"
    /\ failed = {}
    /\ torn = {}
    /\ interval = TRUE
    /\ faults = 0

Goto(p, step) == pc' = [pc EXCEPT ![p] = step]

(* load_from_disk returns a certificate: both files are there.               *)
OnDisk(n) == cert[n] # "none" /\ key[n] # "none"

(* is_expiring_soon reads the file; one that is missing does not expire.     *)
IsExpiringSoon(n) == cert[n] = "old"

-----------------------------------------------------------------------------
(* The syncs and the tasks they spawn.                                       *)

(* read_db_and_build_updates: a domain is unknown to the store until its     *)
(* task has published something, and every sync until then spawns one more.  *)
InsertDomain(d, t) ==
    /\ up
    /\ domains[d] = Absent
    /\ pc[t] = "off"
    /\ Goto(t, "load")
    /\ target' = [target EXCEPT ![t] = d]
    /\ UNCHANGED <<domains, disk, valid, todo, up, served, failed, interval, faults>>

LoadFromDisk(t) ==
    /\ pc[t] = "load"
    /\ Goto(t, IF OnDisk(target[t]) THEN "publish" ELSE "order")
    /\ UNCHANGED <<domains, disk, valid, target, todo, up, served, failed, interval, faults>>

-----------------------------------------------------------------------------
(* generate_certificate_and_persist.                                         *)

(* The order of a name validated not long ago is ready at once, until the    *)
(* authority wants to see it validated again.                                *)
CreateOrder(p) ==
    /\ pc[p] = "order"
    /\ \/ Goto(p, "challenge") /\ valid' = valid \ {target[p]}
       \/ target[p] \in valid /\ Goto(p, "finalize") /\ UNCHANGED valid
    /\ UNCHANGED <<domains, disk, target, todo, up, served, failed, interval, faults>>

(* get_challenge and handle_challenge.  Two orders may share their           *)
(* authorization; one that another task has made valid since this order was  *)
(* created is waited for without ever being read again.                      *)
GetChallenge(p) ==
    /\ pc[p] = "challenge"
    /\ \/ /\ Goto(p, "validate")
          /\ domains' = IF target[p] \in Domains
                        THEN [domains EXCEPT ![target[p]] = Challenge(p)]
                        ELSE domains
       \/ /\ target[p] \in valid
          /\ Goto(p, "spin")
          /\ UNCHANGED domains
    /\ UNCHANGED <<disk, valid, target, todo, up, served, failed, interval, faults>>

(* Whether the authority may find the answer to the challenge of p: for a    *)
(* custom domain at the http service, which answers the challenge of the     *)
(* last order only, and for the default domain at the dns.                   *)
Answers(p) ==
    \/ target[p] = Default
    \/ /\ target[p] \in Domains
       /\ domains[target[p]].kind = "Challenge"

MustAnswer(p) == target[p] \in Domains => domains[target[p]] = Challenge(p)

(* Where a task is when it panics: nobody joins it.                          *)
Gone(p) == IF p = Renewer THEN "dead" ELSE "off"

(* complete_challenge polls until the order is ready or invalid, and panics  *)
(* when it is not ready.                                                     *)
CompleteChallenge(p) ==
    /\ pc[p] = "validate"
    /\ \/ /\ Answers(p)
          /\ Goto(p, "finalize")
          /\ valid' = valid \union {target[p]}
       \/ /\ ~MustAnswer(p)
          /\ Goto(p, Gone(p))
          /\ UNCHANGED valid
    /\ UNCHANGED <<domains, disk, target, todo, up, served, failed, interval, faults>>

(* aquire_certificate and write_certificate_to_disk: nothing is awaited      *)
(* between the answer of the authority and the first file, but the two files *)
(* are written one after the other.  A pair that two tasks write at once, or *)
(* that a crash cuts in two, is torn until it is written again as one.       *)
Writing(n) == {p \in Orderers : pc[p] = "write_key" /\ target[p] = n}

WriteCert(p) ==
    /\ pc[p] = "finalize"
    /\ cert' = [cert EXCEPT ![target[p]] = "fresh"]
    /\ key' = [key EXCEPT ![target[p]] =
                  IF key[target[p]] = "none" THEN "none" ELSE "foreign"]
    /\ writer' = [writer EXCEPT ![target[p]] = p]
    /\ torn' = IF Writing(target[p]) = {} THEN torn \ {target[p]}
               ELSE torn \union {target[p]}
    /\ Goto(p, "write_key")
    /\ UNCHANGED <<domains, valid, target, todo, up, served, failed, interval, faults>>

KeepOldKey(p) ==      \* mutant: a key that is there already is kept
    /\ pc[p] = "write_key"
    /\ key' = [key EXCEPT ![target[p]] = IF @ = "none" THEN "matching" ELSE @]
    /\ Goto(p, "publish")
    /\ UNCHANGED <<domains, cert, writer, torn, valid, target, todo, up, served,
                   failed, interval, faults>>

WriteKey(p) ==
    /\ pc[p] = "write_key"
    /\ key' = [key EXCEPT ![target[p]] =
                  IF writer[target[p]] = p THEN "matching" ELSE "foreign"]
    /\ Goto(p, "publish")
    /\ UNCHANGED <<domains, cert, writer, torn, valid, target, todo, up, served,
                   failed, interval, faults>>

Order(p) ==
    \/ CreateOrder(p) \/ GetChallenge(p) \/ CompleteChallenge(p)
    \/ WriteCert(p) \/ WriteKey(p)

PublishIfAsked(t) ==  \* mutant: only the last to publish a challenge goes on
    /\ pc[t] = "publish"
    /\ Goto(t, "off")
    /\ domains' = [domains EXCEPT ![target[t]] = IF @ = Challenge(t) THEN Ready ELSE @]
    /\ UNCHANGED <<disk, valid, target, todo, up, served, failed, interval, faults>>

PublishIfAbsent(t) == \* mutant: a state that is there already is kept
    /\ pc[t] = "publish"
    /\ Goto(t, "off")
    /\ domains' = [domains EXCEPT ![target[t]] = IF @ = Absent THEN Ready ELSE @]
    /\ UNCHANGED <<disk, valid, target, todo, up, served, failed, interval, faults>>

Publish(t) ==
    /\ pc[t] = "publish"
    /\ Goto(t, "off")
    /\ domains' = [domains EXCEPT ![target[t]] = Ready]
    /\ UNCHANGED <<disk, valid, target, todo, up, served, failed, interval, faults>>

-----------------------------------------------------------------------------
(* CertificateStore::load and the task that renews.                          *)

ReadyDomains == {d \in Domains : domains[d] = Ready}

(* load() takes the default certificate from disk, or orders one.            *)
Load ==
    /\ pc[Renewer] = "boot"
    /\ IF OnDisk(Default)
       THEN up' = TRUE /\ Goto(Renewer, "asleep")
       ELSE Goto(Renewer, "order") /\ UNCHANGED up
    /\ target' = [target EXCEPT ![Renewer] = Default]
    /\ UNCHANGED <<domains, disk, valid, todo, served, failed, interval, faults>>

(* run_proxy copies the default certificate into the settings of its         *)
(* listener, once.                                                           *)
RunProxy ==
    /\ up
    /\ served = "none"
    /\ served' = cert[Default]
    /\ UNCHANGED <<domains, disk, valid, pc, target, todo, up, failed, interval, faults>>

TickForAll ==         \* mutant: the default is one more name in the loop
    /\ pc[Renewer] = "asleep"
    /\ target' = [target EXCEPT ![Renewer] = Default]
    /\ Goto(Renewer, "next")
    /\ todo' = ReadyDomains \union {Default}
    /\ UNCHANGED <<domains, disk, valid, up, served, failed, interval, faults>>

(* The interval ticks, at once and then every day: the default certificate   *)
(* comes first, then the domains that are ready by then.                     *)
Tick ==
    /\ pc[Renewer] = "asleep"
    /\ target' = [target EXCEPT ![Renewer] = Default]
    /\ IF IsExpiringSoon(Default)
       THEN Goto(Renewer, "order") /\ UNCHANGED todo
       ELSE Goto(Renewer, "next") /\ todo' = ReadyDomains
    /\ UNCHANGED <<domains, disk, valid, up, served, failed, interval, faults>>

DefaultOnly ==        \* mutant: the domains wait while the default is renewed
    /\ pc[Renewer] = "publish"
    /\ target[Renewer] = Default
    /\ up' = TRUE
    /\ Goto(Renewer, "asleep")
    /\ UNCHANGED <<domains, disk, valid, target, todo, served, failed, interval, faults>>

(* load() returns with the default certificate it has generated; renew()     *)
(* goes on to the domains.                                                   *)
PublishDefault ==
    /\ pc[Renewer] = "publish"
    /\ target[Renewer] = Default
    /\ up' = TRUE
    /\ IF up
       THEN Goto(Renewer, "next") /\ todo' = ReadyDomains
       ELSE Goto(Renewer, "asleep") /\ UNCHANGED todo
    /\ UNCHANGED <<domains, disk, valid, target, served, failed, interval, faults>>

RenewDomain(d) ==
    /\ pc[Renewer] = "next"
    /\ d \in todo
    /\ todo' = todo \ {d}
    /\ IF IsExpiringSoon(d)
       THEN Goto(Renewer, "order") /\ target' = [target EXCEPT ![Renewer] = d]
       ELSE UNCHANGED <<pc, target>>
    /\ UNCHANGED <<domains, disk, valid, up, served, failed, interval, faults>>

PublishRenewed ==
    /\ pc[Renewer] = "publish"
    /\ target[Renewer] # Default
    /\ domains' = [domains EXCEPT ![target[Renewer]] = Ready]
    /\ Goto(Renewer, "next")
    /\ UNCHANGED <<disk, valid, target, todo, up, served, failed, interval, faults>>

RenewalEnds ==
    /\ pc[Renewer] = "next"
    /\ todo = {}
    /\ Goto(Renewer, "asleep")
    /\ UNCHANGED <<domains, disk, valid, target, todo, up, served, failed, interval, faults>>

-----------------------------------------------------------------------------
(* Time, failures and restarts.                                              *)

CertificateAges(n) ==
    /\ cert[n] = "fresh"
    /\ cert' = [cert EXCEPT ![n] = "old"]
    /\ UNCHANGED <<domains, key, writer, torn, valid, pc, target, todo, up, served,
                   failed, interval, faults>>

ServedAges ==
    /\ served = "fresh"
    /\ served' = "old"
    /\ UNCHANGED <<domains, disk, valid, pc, target, todo, up, failed, interval, faults>>

(* Every sync of the interval waits for the github worker: it ends when that *)
(* one is dead (worker.rs:54-62), and whoever else syncs does so as before.  *)
IntervalStops ==
    /\ interval
    /\ interval' = FALSE
    /\ UNCHANGED <<domains, disk, valid, pc, target, todo, up, served, failed, faults>>

(* A request to the authority, to the provider or for an intermediate        *)
(* certificate fails: unwrap panics, and the task is gone.                   *)
Panic(p) ==
    /\ faults < MaxFaults
    /\ pc[p] \in Ordering \union {"load"}
    /\ up
    /\ faults' = faults + 1
    /\ Goto(p, Gone(p))
    /\ failed' = failed \union
                    {d \in Domains : d = target[p] /\ domains[d] = Challenge(p)}
    /\ torn' = IF pc[p] = "write_key" THEN torn \union {target[p]} ELSE torn
    /\ UNCHANGED <<domains, cert, key, writer, valid, target, todo, up, served, interval>>

(* The process stops, also when load() itself panics, and starts again with  *)
(* nothing but the files.                                                    *)
Restart ==
    /\ faults < MaxFaults
    /\ faults' = faults + 1
    /\ torn' = torn \union {target[p] : p \in {q \in Orderers : pc[q] = "write_key"}}
    /\ domains' = [d \in Domains |-> Absent]
    /\ pc' = Idle
    /\ todo' = {}
    /\ up' = FALSE
    /\ served' = "none"
    /\ failed' = {}
    /\ interval' = TRUE
    /\ UNCHANGED <<cert, key, writer, valid, target>>

Renewal ==
    \/ Load \/ Tick \/ PublishDefault \/ PublishRenewed \/ RenewalEnds
    \/ \E d \in Domains : RenewDomain(d)

Attempt(t) == LoadFromDisk(t) \/ Publish(t)

Next ==
    \/ \E d \in Domains, t \in Tasks : InsertDomain(d, t)
    \/ \E p \in Orderers : Order(p) \/ Panic(p)
    \/ \E t \in Tasks : Attempt(t)
    \/ Renewal
    \/ RunProxy
    \/ \E n \in Names : CertificateAges(n)
    \/ ServedAges
    \/ IntervalStops
    \/ Restart

Spec == Init /\ [][Next]_vars

(* tokio polls every task that is ready; a full sync follows every five      *)
(* minutes (manager.rs:91) for as long as the interval goes on.  Nothing is  *)
(* assumed about time, failures or who else asks for a sync.                 *)
Fairness ==
    /\ \A t \in Tasks : WF_vars(Order(t) \/ Attempt(t))
    /\ WF_vars(Order(Renewer) \/ Renewal)
    /\ WF_vars(RunProxy)
    /\ \A d \in Domains : WF_vars(interval /\ \E t \in Tasks : InsertDomain(d, t))

FairSpec == Spec /\ Fairness

-----------------------------------------------------------------------------
(* Properties.                                                               *)

(* A domain is left with a challenge nobody works on only if the attempt     *)
(* that published this very challenge was refused by the authority or the    *)
(* network (tls/mod.rs:117-145, 160-186): however many tasks order           *)
(* certificates for the domain, overwrite one another and make one another   *)
(* fail, and though nobody notices the panic of any of them.                 *)
NoStrandedChallenge ==
    \A d \in Domains, p \in Orderers :
        domains[d] = Challenge(p) =>
            \/ pc[p] \in AfterChallenge /\ target[p] = d
            \/ d \in failed

(* The two files of a name belong to each other (tls/certificate.rs:78-86)   *)
(* unless a task is between the two, two tasks wrote them at once, or a      *)
(* crash fell between them: nothing else may pair a certificate with a       *)
(* foreign key, which the handshake unwraps (proxy.rs:339-341).              *)
PairsMatch ==
    \A n \in Names :
        OnDisk(n) /\ key[n] = "foreign" => n \in torn \/ Writing(n) # {}

(* Every custom domain becomes ready again and again (map.rs:145-146): an    *)
(* attempt that failed before it published anything is retried by a later    *)
(* sync, for as long as the interval goes on, and one that failed later is   *)
(* the end of it only when its challenge was the last to be published.       *)
DomainsSettle ==
    \A d \in Domains : []<>(domains[d] = Ready \/ d \in failed \/ ~interval)

(* The certificate of a domain that is ready is renewed when it is about to  *)
(* expire (tls/mod.rs:148-191), unless the task that renews is no more or an *)
(* attempt for the domain failed; also when the default certificate needs    *)
(* renewing all the time.  After a restart the domain is unknown again, until*)
(* a sync hands it to the store, which may never come without the interval.  *)
RenewerStopped == pc[Renewer] \in {"spin", "dead"}
Forgotten(d) == domains[d] = Absent /\ ~interval
ExpiringIsRenewed ==
    \A d \in Domains :
        (domains[d] = Ready /\ IsExpiringSoon(d))
            ~> (~IsExpiringSoon(d) \/ d \in failed \/ RenewerStopped \/ Forgotten(d))

(* What "sets up a task to renew them" (tls/mod.rs:76) promises of the       *)
(* certificate that every host without one of its own is served with.        *)
ServedIsRenewed == served = "old" ~> served # "old"
=============================================================================
