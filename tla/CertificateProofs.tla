------------------------- MODULE CertificateProofs -------------------------
(* Proofs about Certificates, for every set of domains and of tasks: types,  *)
(* who may leave a challenge behind, and which files belong together.        *)
EXTENDS Certificates, TLAPS

(* The initial values have their types.                                      *)
LEMMA InitTypes == Init => TypeOK
  <1> USE DEF TlsStates, Ages, Orderers, Names, Steps, Idle
  <1> SUFFICES ASSUME Init PROVE TypeOK
    OBVIOUS
  <1>1. faults \in 0..MaxFaults
    BY CertificateConstants DEF CertificateConstants, Init
  <1>2. /\ domains \in [Domains -> TlsStates]
        /\ writer \in [Names -> Orderers]
        /\ cert \in [Names -> Ages]
        /\ key \in [Names -> {"none", "matching", "foreign"}]
    BY DEF Init
  <1>3. /\ pc \in [Orderers -> Steps]
        /\ target \in [Orderers -> Names]
    BY DEF Init
  <1>4. /\ \A t \in Tasks : pc[t] \notin {"boot", "asleep", "next", "dead"} /\ target[t] \in Domains
        /\ pc[Renewer] \notin {"off", "load"}
    BY CertificateConstants DEF CertificateConstants, Init
  <1> QED
    BY <1>1, <1>2, <1>3, <1>4 DEF Init, TypeOK

(* Every step keeps the types.                                               *)
LEMMA NextTypes ==
    ASSUME CertificateConstants, TypeOK, [Next]_vars
    PROVE  TypeOK'
  <1> USE DEF TypeOK, CertificateConstants, Goto, Orderers, Names, disk
  <1>1. ASSUME NEW d \in Domains, NEW t \in Tasks, InsertDomain(d, t)
        PROVE  TypeOK'
    BY <1>1 DEF InsertDomain, Steps
  <1>2. ASSUME NEW t \in Tasks, LoadFromDisk(t)
        PROVE  TypeOK'
    BY <1>2 DEF LoadFromDisk, Steps, Ordering, BeforeChallenge, AfterChallenge
  <1>3. ASSUME NEW t \in Tasks, Publish(t)
        PROVE  TypeOK'
    BY <1>3 DEF Publish, Steps, TlsStates
  <1>4. ASSUME NEW p \in Orderers, CreateOrder(p)
        PROVE  TypeOK'
    BY <1>4 DEF CreateOrder, Steps, Ordering, BeforeChallenge, AfterChallenge
  <1>5. ASSUME NEW p \in Orderers, GetChallenge(p)
        PROVE  TypeOK'
    <2>1. domains' \in [Domains -> TlsStates]
      BY <1>5 DEF GetChallenge, TlsStates
    <2> QED
      BY <1>5, <2>1 DEF GetChallenge, Steps, Ordering, BeforeChallenge, AfterChallenge
  <1>6. ASSUME NEW p \in Orderers, CompleteChallenge(p)
        PROVE  TypeOK'
    BY <1>6 DEF CompleteChallenge, Gone, Steps, Ordering, BeforeChallenge, AfterChallenge
  <1>7. ASSUME NEW p \in Orderers, WriteCert(p)
        PROVE  TypeOK'
    <2>1. /\ cert' \in [Names -> Ages] /\ writer' \in [Names -> Orderers]
          /\ key' \in [Names -> {"none", "matching", "foreign"}]
          /\ torn' \subseteq Names
      BY <1>7 DEF WriteCert, Ages
    <2> QED
      BY <1>7, <2>1 DEF WriteCert, Steps, Ordering, BeforeChallenge, AfterChallenge
  <1>8. ASSUME NEW p \in Orderers, WriteKey(p)
        PROVE  TypeOK'
    BY <1>8 DEF WriteKey, Steps, Ordering, BeforeChallenge, AfterChallenge
  <1>9. CASE Load \/ Tick \/ RenewalEnds
    BY <1>9 DEF Load, Tick, RenewalEnds, ReadyDomains, Steps, Ordering, BeforeChallenge
  <1>10. CASE PublishDefault \/ PublishRenewed
    <2>1. domains' \in [Domains -> TlsStates]
      BY <1>10 DEF PublishDefault, PublishRenewed, TlsStates
    <2> QED
      BY <1>10, <2>1 DEF PublishDefault, PublishRenewed, ReadyDomains, Steps
  <1>11. ASSUME NEW d \in Domains, RenewDomain(d)
         PROVE  TypeOK'
    BY <1>11 DEF RenewDomain, Steps, Ordering, BeforeChallenge
  <1>12. CASE RunProxy \/ ServedAges \/ IntervalStops
    BY <1>12 DEF RunProxy, ServedAges, IntervalStops, Ages
  <1>13. ASSUME NEW n \in Names, CertificateAges(n)
         PROVE  TypeOK'
    BY <1>13 DEF CertificateAges, Ages
  <1>14. ASSUME NEW p \in Orderers, Panic(p)
         PROVE  TypeOK'
    <2>1. faults' \in 0..MaxFaults
      BY <1>14 DEF Panic
    <2>2. failed' \subseteq Domains /\ torn' \subseteq Names
      BY <1>14 DEF Panic
    <2> QED
      BY <1>14, <2>1, <2>2 DEF Panic, Gone, Steps
  <1>15. CASE Restart
    <2>1. faults' \in 0..MaxFaults
      BY <1>15 DEF Restart
    <2>2. torn' \subseteq Names
      BY <1>15 DEF Restart
    <2> QED
      BY <1>15, <2>1, <2>2 DEF Restart, Idle, Steps, TlsStates, Ages
  <1>16. CASE UNCHANGED vars
    BY <1>16 DEF vars
  <1> QED
    BY <1>1, <1>2, <1>3, <1>4, <1>5, <1>6, <1>7, <1>8, <1>9, <1>10, <1>11, <1>12,
       <1>13, <1>14, <1>15, <1>16 DEF Next, Order, Attempt, Renewal

(* Every variable of the store keeps its type, and every task does only what *)
(* a task of its kind does.                                                  *)
THEOREM CertificateTypesAreCorrect == Spec => []TypeOK
  <1>1. TypeOK /\ [Next]_vars => TypeOK'
    BY NextTypes, CertificateConstants
  <1> QED
    BY <1>1, InitTypes, PTL DEF Spec

-----------------------------------------------------------------------------
(* Challenges.                                                               *)

(* Nothing is published initially.                                           *)
LEMMA InitChallenges == Init => NoStrandedChallenge
  BY DEF Init, NoStrandedChallenge, Absent, Challenge

(* A challenge outlives its task only with the failure of the task.          *)
LEMMA NextChallenges ==
    ASSUME CertificateConstants, TypeOK, NoStrandedChallenge, [Next]_vars
    PROVE  NoStrandedChallenge'
  <1> SUFFICES ASSUME NEW d \in Domains, NEW q \in Orderers, domains'[d] = Challenge(q)
               PROVE  (pc'[q] \in AfterChallenge /\ target'[q] = d) \/ d \in failed'
    BY DEF NoStrandedChallenge
  <1>0. domains[d] = Challenge(q) =>
            (pc[q] \in AfterChallenge /\ target[q] = d) \/ d \in failed
    BY DEF NoStrandedChallenge
  <1> USE DEF Goto, AfterChallenge
  <1> DEFINE Same == UNCHANGED <<domains, failed>>
  <1>a. /\ pc \in [Orderers -> Steps] /\ target \in [Orderers -> Names]
        /\ domains \in [Domains -> TlsStates]
        /\ \A t \in Tasks : t # Renewer /\ t \in Orderers /\ target[t] \in Domains
        /\ Renewer \in Orderers
    BY DEF TypeOK, CertificateConstants, Orderers
  <1>b. Challenge(q) # Ready /\ Challenge(q) # Absent
    BY DEF Challenge, Ready, Absent
  <1>c. \A p \in Orderers : Challenge(p) = Challenge(q) => p = q
    BY DEF Challenge
  <1>1. ASSUME NEW e \in Domains, NEW t \in Tasks, InsertDomain(e, t)
        PROVE  (pc'[q] \in AfterChallenge /\ target'[q] = d) \/ d \in failed'
    BY <1>0, <1>1, <1>a DEF InsertDomain
  <1>2. ASSUME NEW t \in Tasks, LoadFromDisk(t)
        PROVE  (pc'[q] \in AfterChallenge /\ target'[q] = d) \/ d \in failed'
    BY <1>0, <1>2, <1>a DEF LoadFromDisk
  <1>3. ASSUME NEW t \in Tasks, Publish(t)
        PROVE  (pc'[q] \in AfterChallenge /\ target'[q] = d) \/ d \in failed'
    BY <1>0, <1>3, <1>a, <1>b DEF Publish
  <1>4. ASSUME NEW p \in Orderers, CreateOrder(p)
        PROVE  (pc'[q] \in AfterChallenge /\ target'[q] = d) \/ d \in failed'
    BY <1>0, <1>4, <1>a DEF CreateOrder
  <1>5. ASSUME NEW p \in Orderers, GetChallenge(p)
        PROVE  (pc'[q] \in AfterChallenge /\ target'[q] = d) \/ d \in failed'
    <2>1. CASE domains' = domains
      BY <1>0, <1>5, <1>a, <2>1 DEF GetChallenge
    <2>2. CASE domains' # domains
      <3>1. /\ pc' = [pc EXCEPT ![p] = "validate"]
            /\ target[p] \in Domains
            /\ domains' = [domains EXCEPT ![target[p]] = Challenge(p)]
            /\ UNCHANGED <<target, failed>>
        BY <1>5, <2>2 DEF GetChallenge
      <3>2. CASE d = target[p]
        BY <1>a, <1>c, <3>1, <3>2
      <3>3. CASE d # target[p]
        BY <1>0, <1>5, <1>a, <3>1, <3>3 DEF GetChallenge
      <3> QED
        BY <3>2, <3>3
    <2> QED
      BY <2>1, <2>2
  <1>6. ASSUME NEW p \in Orderers, CompleteChallenge(p)
        PROVE  (pc'[q] \in AfterChallenge /\ target'[q] = d) \/ d \in failed'
    <2>1. UNCHANGED <<domains, target, failed>>
      BY <1>6 DEF CompleteChallenge
    <2>2. CASE pc' = [pc EXCEPT ![p] = "finalize"]
      BY <1>0, <1>a, <2>1, <2>2
    <2>3. CASE ~MustAnswer(p) /\ pc' = [pc EXCEPT ![p] = Gone(p)]
      <3>1. target[p] = d => p # q
        BY <2>1, <2>3 DEF MustAnswer
      <3> QED
        BY <1>0, <1>a, <2>1, <2>3, <3>1
    <2> QED
      BY <1>6, <2>2, <2>3 DEF CompleteChallenge
  <1>7. ASSUME NEW p \in Orderers, WriteCert(p) \/ WriteKey(p)
        PROVE  (pc'[q] \in AfterChallenge /\ target'[q] = d) \/ d \in failed'
    BY <1>0, <1>7, <1>a DEF WriteCert, WriteKey
  <1>8. CASE Load \/ Tick \/ RenewalEnds
    BY <1>0, <1>8, <1>a DEF Load, Tick, RenewalEnds
  <1>9. CASE PublishDefault
    <2>1. target[Renewer] # d
      BY <1>9 DEF PublishDefault, CertificateConstants
    <2> QED
      BY <1>0, <1>9, <1>a, <2>1 DEF PublishDefault
  <1>10. CASE PublishRenewed
    BY <1>0, <1>10, <1>a, <1>b DEF PublishRenewed
  <1>11. ASSUME NEW e \in Domains, RenewDomain(e)
         PROVE  (pc'[q] \in AfterChallenge /\ target'[q] = d) \/ d \in failed'
    BY <1>0, <1>11, <1>a DEF RenewDomain
  <1>12. CASE RunProxy \/ ServedAges \/ IntervalStops \/ \E n \in Names : CertificateAges(n)
    BY <1>0, <1>12 DEF RunProxy, ServedAges, IntervalStops, CertificateAges
  <1>13. ASSUME NEW p \in Orderers, Panic(p)
         PROVE  (pc'[q] \in AfterChallenge /\ target'[q] = d) \/ d \in failed'
    <2>1. /\ UNCHANGED <<domains, target>>
          /\ failed \subseteq failed'
          /\ target[p] = d /\ p = q => d \in failed'
      BY <1>13 DEF Panic
    <2>2. p # q => pc'[q] = pc[q]
      BY <1>13, <1>a DEF Panic
    <2> QED
      BY <1>0, <2>1, <2>2
  <1>14. CASE Restart
    BY <1>14, <1>b DEF Restart
  <1>15. CASE UNCHANGED vars
    BY <1>0, <1>15 DEF vars
  <1> QED
    BY <1>1, <1>2, <1>3, <1>4, <1>5, <1>6, <1>7, <1>8, <1>9, <1>10, <1>11, <1>12,
       <1>13, <1>14, <1>15 DEF Next, Order, Attempt, Renewal

(* A challenge nobody works on was left by an attempt that the authority or  *)
(* the network made fail (tls/mod.rs:117-145): tasks for the same domain     *)
(* never leave one by overwriting one another.                               *)
THEOREM ChallengesAreNotStranded == Spec => []NoStrandedChallenge
  <1>1. TypeOK /\ NoStrandedChallenge /\ [Next]_vars => NoStrandedChallenge'
    BY NextChallenges, CertificateConstants
  <1> QED
    BY <1>1, InitChallenges, CertificateTypesAreCorrect, PTL DEF Spec

-----------------------------------------------------------------------------
(* Files.                                                                    *)

(* A task about to write the key has written the certificate last, or the    *)
(* pair is known to be torn.                                                 *)
WriterInv ==
    \A p \in Orderers :
        pc[p] = "write_key" => writer[target[p]] = p \/ target[p] \in torn

PairInv == PairsMatch /\ WriterInv

(* There are no files initially.                                             *)
LEMMA InitPairs == Init => PairInv
  <1> SUFFICES ASSUME Init PROVE PairInv
    OBVIOUS
  <1>1. \A n \in Names : ~OnDisk(n)
    BY DEF Init, OnDisk
  <1>2. \A p \in Orderers : pc[p] # "write_key"
    BY DEF Init, Idle
  <1> QED
    BY <1>1, <1>2 DEF PairInv, PairsMatch, WriterInv

(* A step that writes no file and ends no write keeps the pairs.             *)
LEMMA SamePairs ==
    ASSUME PairInv, UNCHANGED disk,
           \A p \in Orderers : /\ pc[p] = "write_key" => pc'[p] = "write_key"
                               /\ pc'[p] = "write_key" => pc[p] = "write_key"
                               /\ pc[p] = "write_key" => target'[p] = target[p]
    PROVE  PairInv'
  <1>1. \A n \in Names : Writing(n) \subseteq Writing(n)'
    BY DEF Writing
  <1>2. PairsMatch'
    BY <1>1 DEF PairInv, PairsMatch, OnDisk, disk
  <1>3. WriterInv'
    BY DEF PairInv, WriterInv, disk
  <1> QED
    BY <1>2, <1>3 DEF PairInv

(* Every step keeps the pairs.                                               *)
LEMMA NextPairs ==
    ASSUME CertificateConstants, TypeOK, PairInv, [Next]_vars
    PROVE  PairInv'
  <1>a. /\ pc \in [Orderers -> Steps] /\ target \in [Orderers -> Names]
        /\ Tasks \subseteq Orderers /\ Renewer \in Orderers
    BY DEF TypeOK, Orderers
  <1> USE DEF Goto
  <1>1. ASSUME NEW d \in Domains, NEW t \in Tasks, InsertDomain(d, t)
        PROVE  PairInv'
    BY <1>1, <1>a, SamePairs DEF InsertDomain
  <1>2. ASSUME NEW t \in Tasks, Attempt(t)
        PROVE  PairInv'
    BY <1>2, <1>a, SamePairs DEF Attempt, LoadFromDisk, Publish
  <1>3. ASSUME NEW p \in Orderers, CreateOrder(p) \/ GetChallenge(p) \/ CompleteChallenge(p)
        PROVE  PairInv'
    BY <1>3, <1>a, SamePairs DEF CreateOrder, GetChallenge, CompleteChallenge, Gone
  <1>4. ASSUME NEW p \in Orderers, WriteCert(p)
        PROVE  PairInv'
    <2> DEFINE n == target[p]
    <2>1. /\ target' = target
          /\ pc' = [pc EXCEPT ![p] = "write_key"]
          /\ writer' = [writer EXCEPT ![n] = p]
          /\ \A m \in Names : m # n => cert'[m] = cert[m] /\ key'[m] = key[m]
          /\ \A m \in Names : m # n => (m \in torn' <=> m \in torn)
          /\ Writing(n) # {} => n \in torn'
      BY <1>4 DEF WriteCert, TypeOK
    <2>2. \A m \in Names : Writing(m) \subseteq Writing(m)'
      BY <2>1, <1>a DEF Writing
    <2>3. p \in Writing(n)'
      BY <2>1, <1>a DEF Writing
    <2>4. PairsMatch'
      BY <2>1, <2>2, <2>3 DEF PairInv, PairsMatch, OnDisk
    <2>5. WriterInv'
      <3> SUFFICES ASSUME NEW q \in Orderers, pc'[q] = "write_key"
                   PROVE  writer'[target[q]] = q \/ target[q] \in torn'
        BY <2>1 DEF WriterInv
      <3>1. CASE q = p
        BY <2>1, <3>1, <1>a DEF TypeOK
      <3>2. CASE q # p /\ target[q] = n
        <4>1. q \in Writing(n)
          BY <2>1, <3>2, <1>a DEF Writing
        <4> QED
          BY <2>1, <3>2, <4>1
      <3>3. CASE q # p /\ target[q] # n
        BY <2>1, <3>3, <1>a DEF TypeOK, PairInv, WriterInv
      <3> QED
        BY <3>1, <3>2, <3>3
    <2> QED
      BY <2>4, <2>5 DEF PairInv
  <1>5. ASSUME NEW p \in Orderers, WriteKey(p)
        PROVE  PairInv'
    <2> DEFINE n == target[p]
    <2>1. /\ UNCHANGED <<target, cert, writer, torn>>
          /\ pc[p] = "write_key"
          /\ pc' = [pc EXCEPT ![p] = "publish"]
          /\ \A m \in Names : m # n => key'[m] = key[m]
          /\ writer[n] = p => key'[n] = "matching"
      BY <1>5, <1>a DEF WriteKey, TypeOK
    <2>2. \A m \in Names : m # n => Writing(m) \subseteq Writing(m)'
      BY <2>1, <1>a DEF Writing
    <2>3. writer[n] = p \/ n \in torn
      BY <2>1 DEF PairInv, WriterInv
    <2>4. PairsMatch'
      BY <2>1, <2>2, <2>3 DEF PairInv, PairsMatch, OnDisk
    <2>5. WriterInv'
      BY <2>1, <1>a DEF PairInv, WriterInv
    <2> QED
      BY <2>4, <2>5 DEF PairInv
  <1>6. CASE Renewal
    BY <1>6, <1>a, SamePairs
       DEF Renewal, Load, Tick, PublishDefault, PublishRenewed, RenewalEnds, RenewDomain
  <1>7. CASE RunProxy \/ ServedAges \/ IntervalStops
    BY <1>7, <1>a, SamePairs DEF RunProxy, ServedAges, IntervalStops
  <1>8. ASSUME NEW m \in Names, CertificateAges(m)
        PROVE  PairInv'
    <2>1. UNCHANGED <<pc, target, key, writer, torn>>
      BY <1>8 DEF CertificateAges
    <2>2. \A n \in Names : cert'[n] # "none" => cert[n] # "none"
      BY <1>8 DEF CertificateAges, TypeOK
    <2>3. \A n \in Names : Writing(n)' = Writing(n)
      BY <2>1 DEF Writing
    <2>4. PairsMatch'
      BY <2>1, <2>2, <2>3 DEF PairInv, PairsMatch, OnDisk
    <2> QED
      BY <2>1, <2>4 DEF PairInv, WriterInv
  <1>9. ASSUME NEW p \in Orderers, Panic(p)
        PROVE  PairInv'
    <2>1. /\ UNCHANGED <<target, cert, key, writer>>
          /\ pc' = [pc EXCEPT ![p] = Gone(p)] /\ Gone(p) # "write_key"
          /\ torn \subseteq torn'
          /\ pc[p] = "write_key" => target[p] \in torn'
      BY <1>9 DEF Panic, Gone
    <2>2. \A n \in Names : Writing(n) \subseteq Writing(n)' \union {p}
      BY <2>1, <1>a DEF Writing
    <2>3. \A n \in Names : p \in Writing(n) => n \in torn'
      BY <2>1 DEF Writing
    <2>4. PairsMatch'
      BY <2>1, <2>2, <2>3 DEF PairInv, PairsMatch, OnDisk
    <2>5. WriterInv'
      BY <2>1, <1>a DEF PairInv, WriterInv
    <2> QED
      BY <2>4, <2>5 DEF PairInv
  <1>10. CASE Restart
    <2>1. /\ UNCHANGED <<cert, key>>
          /\ \A q \in Orderers : pc'[q] # "write_key"
          /\ torn \subseteq torn'
          /\ \A n \in Names : Writing(n) # {} => n \in torn'
      BY <1>10 DEF Restart, Idle, Writing
    <2>2. PairsMatch'
      BY <2>1 DEF PairInv, PairsMatch, OnDisk
    <2>3. WriterInv'
      BY <2>1 DEF WriterInv
    <2> QED
      BY <2>2, <2>3 DEF PairInv
  <1>11. CASE UNCHANGED vars
    BY <1>11, SamePairs DEF vars
  <1> QED
    BY <1>1, <1>2, <1>3, <1>4, <1>5, <1>6, <1>7, <1>8, <1>9, <1>10, <1>11 DEF Next, Order

(* The two files of a name belong together (tls/certificate.rs:78-86) unless *)
(* two tasks wrote them at once or a crash fell between the two writes.      *)
THEOREM PairsBelongTogether == Spec => []PairsMatch
  <1>1. TypeOK /\ PairInv /\ [Next]_vars => PairInv'
    BY NextPairs, CertificateConstants
  <1>2. PairInv => PairsMatch
    BY DEF PairInv
  <1> QED
    BY <1>1, <1>2, InitPairs, CertificateTypesAreCorrect, PTL DEF Spec
=============================================================================
