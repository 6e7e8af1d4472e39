--------------------------- MODULE InventoryProofs --------------------------
(***************************************************************************)
(* Proofs about the inventory and what is published from it, for any       *)
(* sites, devices and ranges of numbers: numbers are never shared, one     *)
(* undisturbed compilation repairs every stale or abandoned publication,   *)
(* and no two hubs own a prefix in the same epoch.                         *)
(***************************************************************************)
EXTENDS Inventory, FiniteSetTheorems, WellFoundedInduction, TLAPS

Views == [sites : SUBSET Sites, keys : SUBSET Sites, owners : Ownerships]
HubStates == [known : BOOLEAN, peers : SUBSET Sites, routes : SUBSET Sites, owners : Ownerships]
Jobs == [pc : {"idle", "register", "promote", "own", "put", "read", "hub1", "hub2", "spokes"},
         site : Sites \cup {None}, epoch : 0 .. MaxEpoch, view : Views, fresh : BOOLEAN]
Records == [site : Sites \cup {None}, owner : Hubs \cup {None}, epoch : 0 .. MaxEpoch]

(* The types in full. *)
Typed ==
  /\ rows \in [Sites -> Rows] /\ keys \in SUBSET Sites /\ leases \in SUBSET Sites /\ ownership \in Ownerships
  /\ hubState \in [Hubs -> HubStates] /\ \A h \in Hubs : hubState[h].peers \subseteq hubState[h].routes
  /\ verified \in SUBSET Hubs /\ spokeState \in [Sites -> [known : BOOLEAN, routes : SUBSET Sites]]
  /\ config \in [Processes -> SUBSET Sites] /\ job \in [Threads -> Jobs] /\ held \in [Coordinators -> Records]
  /\ settled \in BOOLEAN /\ scenario \in Scenarios

(* A site that is activated has its leases, and its first epoch is its     *)
(* only one until the activation is done.  A coordinator holds the record  *)
(* of such a site.                                                         *)
ActivationInv ==
  /\ \A s \in Sites : ownership[s].epoch > 0 => s \in leases
  /\ \A p \in Threads :
       /\ job[p].pc \in {"register", "promote", "own", "put"} => job[p].site \in Sites
       /\ job[p].pc = "own" => job[p].site \in leases /\ job[p].epoch = 1
  /\ \A c \in Coordinators : held[c].epoch > 0 => held[c].site \in leases

(* The owner of a prefix alternates from epoch to epoch, wherever a record *)
(* of it is kept.                                                          *)
OwnerAt(epoch) == IF epoch = 0 THEN None ELSE IF epoch % 2 = 1 THEN "hub1" ELSE "hub2"
Alternating(owners) == \A s \in Sites : owners[s].owner = OwnerAt(owners[s].epoch)

EpochInv ==
  /\ Alternating(ownership)
  /\ \A h \in Hubs : Alternating(hubState[h].owners)
  /\ \A p \in Threads : Alternating(job[p].view.owners)
  /\ \A c \in Coordinators : held[c].owner = OwnerAt(held[c].epoch)

(* A compilation that nothing has disturbed has read what there is, and    *)
(* what it has published is up to date.                                    *)
Current == [sites |-> Topology, keys |-> keys, owners |-> ownership]
Compiling == {"hub1", "hub2", "spokes"}
ActiveSites == {s \in Sites : rows[s].life = "ACTIVE"}

FreshInv ==
  /\ \A p \in Threads : job[p].fresh =>
       /\ job[p].pc \in Compiling /\ job[p].view = Current
       /\ job[p].pc # "hub1" => hubState["hub1"] = BuildHub(Current)
       /\ job[p].pc = "spokes" => hubState["hub2"] = BuildHub(Current)
  /\ settled => /\ \A h \in Hubs : hubState[h] = BuildHub(Current)
                /\ \A s \in ActiveSites \cap keys : spokeState[s] = BuildSpoke(Topology, s)

(* The sites that a compilation has read keep their rows, though they may  *)
(* leave the configuration meanwhile, or others become ACTIVE.             *)
ReadInv ==
  /\ Seeds \subseteq Existing
  /\ \A p \in Threads : job[p].pc \in Compiling => job[p].view.sites \subseteq Existing

(* The inductive invariant. *)
IndInv == Typed /\ NumbersDistinct /\ ActivationInv /\ EpochInv /\ FreshInv /\ ReadInv
-----------------------------------------------------------------------------
(* The order of the natural numbers as a relation. *)
LEMMA LessThan == OpToRel(<, Nat) = {ss \in Nat \X Nat : ss[1] < ss[2]}
BY DEF OpToRel

(* A set of natural numbers has a smallest element. *)
LEMMA Smallest ==
  ASSUME NEW T \in SUBSET Nat, T # {}
  PROVE  \E m \in T : \A n \in T : m <= n
<1>1. PICK m \in T : \A n \in T : ~(<<n, m>> \in OpToRel(<, Nat))
  BY NatLessThanWellFounded, WFMin
<1>2. ASSUME NEW n \in T, n < m PROVE FALSE
  <2>1. <<n, m>> \in {ss \in Nat \X Nat : ss[1] < ss[2]}
    BY <1>2
  <2> QED BY <1>1, <2>1, LessThan
<1> QED BY <1>2

(* What the allocation takes: the lowest number that is free. *)
LEMMA LowestFree ==
  ASSUME NEW T \in SUBSET Nat, T # {}
  PROVE  Min(T) \in T
BY Smallest DEF Min

(* A finite set of natural numbers is bounded: its subsets that are not    *)
(* would have a smallest size.                                             *)
LEMMA Bounded ==
  ASSUME NEW T \in SUBSET Nat, IsFiniteSet(T)
  PROVE  \E u \in Nat : \A x \in T : x <= u
<1> DEFINE unbounded == {S \in SUBSET T : ~\E u \in Nat : \A x \in S : x <= u}
<1> DEFINE sizes == {Cardinality(S) : S \in unbounded}
<1>1. \A S \in SUBSET T : IsFiniteSet(S) /\ Cardinality(S) \in Nat
  BY FS_Subset, FS_CardinalityType
<1>2. sizes \in SUBSET Nat
  BY <1>1
<1>3. SUFFICES ASSUME sizes # {} PROVE FALSE
  <2> SUFFICES ASSUME ~\E u \in Nat : \A x \in T : x <= u PROVE FALSE
    OBVIOUS
  <2>1. Cardinality(T) \in sizes
    OBVIOUS
  <2> QED BY <1>3, <2>1
<1>4. PICK m \in sizes : \A n \in sizes : m <= n
  <2> HIDE DEF sizes
  <2> QED BY <1>2, <1>3, Smallest
<1>5. PICK S \in unbounded : m = Cardinality(S)
  BY <1>4
<1>6. S \in SUBSET T /\ S # {} /\ IsFiniteSet(S) /\ Cardinality(S) \in Nat
  <2>1. S # {}
    <3>1. \A x \in {} : x <= 0
      OBVIOUS
    <3> QED BY <1>5, <3>1
  <2> QED BY <1>1, <1>5, <2>1
<1>7. PICK e \in S : TRUE
  BY <1>6
<1>8. S \ {e} \in SUBSET T /\ Cardinality(S \ {e}) = Cardinality(S) - 1
  BY <1>6, <1>7, FS_RemoveElement
<1>9. Cardinality(S \ {e}) \notin sizes
  BY <1>4, <1>5, <1>6, <1>8
<1>10. PICK u \in Nat : \A x \in S \ {e} : x <= u
  BY <1>8, <1>9
<1>11. e \in Nat /\ S \subseteq Nat
  BY <1>6, <1>7
<1>12. \E w \in Nat : \A x \in S : x <= w
  <2>1. CASE e <= u
    <3>1. \A x \in S : x <= u
      BY <1>10, <2>1
    <3> QED BY <3>1
  <2>2. CASE u < e
    <3>1. \A x \in S : x <= e
      BY <1>10, <1>11, <2>2
    <3> QED BY <1>11, <3>1
  <2> QED BY <1>11, <2>1, <2>2
<1> QED BY <1>5, <1>12

(* The highest number of a finite set. *)
LEMMA Highest ==
  ASSUME NEW T \in SUBSET Nat, IsFiniteSet(T), T # {}
  PROVE  Max(T) \in T /\ \A x \in T : x <= Max(T)
<1> DEFINE bounds == {u \in Nat : \A x \in T : x <= u}
<1>1. bounds \in SUBSET Nat /\ bounds # {}
  BY Bounded
<1>2. PICK m \in bounds : \A u \in bounds : m <= u
  <2> HIDE DEF bounds
  <2> QED BY <1>1, Smallest
<1>3. m \in T
  <2> SUFFICES ASSUME m \notin T PROVE FALSE
    OBVIOUS
  <2>1. m \in Nat /\ \A x \in T : x <= m /\ x # m /\ x \in Nat
    BY <1>2
  <2>2. m # 0 /\ m - 1 \in Nat
    <3>1. PICK x \in T : x <= m /\ x # m /\ x \in Nat
      BY <2>1
    <3> QED BY <2>1, <3>1
  <2>3. \A x \in T : x <= m - 1
    BY <2>1, <2>2
  <2>4. m - 1 \in bounds
    BY <2>2, <2>3
  <2> QED BY <1>2, <2>1, <2>4
<1>4. \A y \in T : m >= y
  BY <1>2
<1>5. \E x \in T : \A y \in T : x >= y
  BY <1>3, <1>4
<1>6. Max(T) \in T /\ \A y \in T : Max(T) >= y
  BY <1>5 DEF Max
<1> QED BY <1>6
-----------------------------------------------------------------------------
(* The hubs are two, and every thread is one of a process. *)
LEMMA Names ==
  /\ Hubs = {"hub1", "hub2"} /\ None \notin Threads /\ "policy" \in Processes
  /\ \A p \in Threads : Process[p] \in Processes
BY InventoryAssumption DEF Hubs, Processes

(* An operation that has not begun. *)
LEMMA IdleFields ==
  /\ NoView \in Views /\ Alternating(NoView.owners)
  /\ Idle \in Jobs /\ Idle.pc = "idle" /\ ~Idle.fresh /\ Alternating(Idle.view.owners)
  /\ Compile \in Jobs /\ Compile.pc = "read" /\ ~Compile.fresh /\ Alternating(Compile.view.owners)
<1>1. NoOwner \in [owner : Hubs \cup {None}, epoch : 0 .. MaxEpoch] /\ NoOwner.owner = None /\ NoOwner.epoch = 0
  BY InventoryAssumption DEF NoOwner
<1>2. [s \in Sites |-> NoOwner] \in Ownerships /\ Alternating([s \in Sites |-> NoOwner])
  BY <1>1 DEF Ownerships, Alternating, OwnerAt
<1>3. NoView \in Views /\ NoView.owners = [s \in Sites |-> NoOwner]
  BY <1>2 DEF NoView, Views
<1>4. 0 \in 0 .. MaxEpoch
  BY InventoryAssumption
<1>5. Idle \in Jobs /\ Idle.pc = "idle" /\ ~Idle.fresh /\ Idle.view = NoView
  BY <1>3, <1>4 DEF Idle, Jobs
<1>6. Compile \in Jobs /\ Compile.pc = "read" /\ ~Compile.fresh /\ Compile.view = NoView
  BY <1>5 DEF Compile, Jobs
<1> QED BY <1>2, <1>3, <1>5, <1>6

(* A change of what there is. *)
LEMMA DisturbFields ==
  ASSUME job \in [Threads -> Jobs], NEW p, NEW new \in Jobs, ~new.fresh, Disturb(p, new)
  PROVE  /\ job' \in [Threads -> Jobs] /\ settled' = FALSE
         /\ \A q \in Threads : ~job'[q].fresh
         /\ \A q \in Threads \ {p} : /\ job'[q].pc = job[q].pc /\ job'[q].site = job[q].site
                                       /\ job'[q].epoch = job[q].epoch /\ job'[q].view = job[q].view
         /\ p \in Threads => job'[p] = new
<1>1. /\ job' = [q \in Threads |-> IF q = p THEN new ELSE [job[q] EXCEPT !.fresh = FALSE]]
      /\ settled' = FALSE
  BY DEF Disturb
<1>2. \A q \in Threads : LET j == [job[q] EXCEPT !.fresh = FALSE]
                           IN  /\ j \in Jobs /\ ~j.fresh /\ j.pc = job[q].pc /\ j.site = job[q].site
                               /\ j.epoch = job[q].epoch /\ j.view = job[q].view
  BY DEF Jobs
<1> QED BY <1>1, <1>2

(* An operation that changes nothing others rely on goes on. *)
LEMMA ContinueFields ==
  ASSUME job \in [Threads -> Jobs], NEW p \in Threads, NEW new \in Jobs, Continue(p, new)
  PROVE  /\ job' \in [Threads -> Jobs] /\ settled' = settled
         /\ \A q \in Threads \ {p} : job'[q] = job[q]
         /\ job'[p] = new
BY DEF Continue

(* A step that changes the database or a spoke's desired state and ends or *)
(* starts over what its thread was at.                                     *)
LEMMA DisturbStep ==
  ASSUME IndInv, NEW p \in Threads, NEW new \in Jobs, ~new.fresh, Disturb(p, new),
         new.pc \notin Compiling, Alternating(new.view.owners),
         new.pc \in {"register", "promote", "own", "put"} => new.site \in Sites,
         new.pc = "own" => new.site \in leases' /\ new.epoch = 1,
         rows' \in [Sites -> Rows], keys' \in SUBSET Sites, leases' \in SUBSET Sites, ownership' \in Ownerships,
         spokeState' \in [Sites -> [known : BOOLEAN, routes : SUBSET Sites]], config' \in [Processes -> SUBSET Sites],
         UNCHANGED <<hubState, verified, held, scenario>>,
         NumbersDistinct', Existing \subseteq Existing', leases \subseteq leases', Alternating(ownership'),
         \A s \in Sites : ownership'[s].epoch > 0 => s \in leases'
  PROVE  IndInv'
<1>1. job \in [Threads -> Jobs]
  BY DEF IndInv, Typed
<1>2. /\ job' \in [Threads -> Jobs] /\ settled' = FALSE
      /\ \A q \in Threads : ~job'[q].fresh
      /\ \A q \in Threads \ {p} : /\ job'[q].pc = job[q].pc /\ job'[q].site = job[q].site
                                    /\ job'[q].epoch = job[q].epoch /\ job'[q].view = job[q].view
      /\ job'[p] = new
  BY <1>1, DisturbFields
<1>3. Typed'
  BY <1>2 DEF IndInv, Typed
<1>4. ActivationInv'
  BY <1>2 DEF IndInv, ActivationInv
<1>5. EpochInv'
  BY <1>2 DEF IndInv, EpochInv
<1>6. FreshInv'
  BY <1>2 DEF FreshInv
<1>7. ReadInv'
  <2>1. ASSUME NEW q \in Threads, job'[q].pc \in Compiling
        PROVE  job'[q].view.sites \subseteq Existing'
    <3>1. q # p /\ job[q].pc \in Compiling /\ job'[q].view = job[q].view
      BY <1>2, <2>1
    <3> QED BY <3>1 DEF IndInv, ReadInv
  <2> QED BY <2>1 DEF IndInv, ReadInv
<1> QED BY <1>3, <1>4, <1>5, <1>6, <1>7 DEF IndInv

(* A step that changes neither the database nor what is published. *)
LEMMA ContinueStep ==
  ASSUME IndInv, NEW p \in Threads, NEW new \in Jobs, Continue(p, new),
         UNCHANGED <<database, published, held, scenario>>, config' \in [Processes -> SUBSET Sites],
         Alternating(new.view.owners),
         new.pc \in {"register", "promote"} => new.site \in Sites, new.pc \notin {"own", "put"},
         new.fresh => /\ new.pc \in Compiling /\ new.view = Current
                      /\ new.pc # "hub1" => hubState["hub1"] = BuildHub(Current)
                      /\ new.pc = "spokes" => hubState["hub2"] = BuildHub(Current),
         new.pc \in Compiling => new.view.sites \subseteq Existing
  PROVE  IndInv'
<1> USE DEF database, published
<1>1. job \in [Threads -> Jobs]
  BY DEF IndInv, Typed
<1>2. /\ job' \in [Threads -> Jobs] /\ settled' = settled
      /\ \A q \in Threads \ {p} : job'[q] = job[q]
      /\ job'[p] = new
  BY <1>1, ContinueFields
<1>3. Typed'
  BY <1>2 DEF IndInv, Typed
<1>4. ActivationInv'
  BY <1>2 DEF IndInv, ActivationInv
<1>5. EpochInv'
  BY <1>2 DEF IndInv, EpochInv
<1>6. /\ Existing' = Existing /\ Configured' = Configured /\ ActiveSites' = ActiveSites /\ Current' = Current
      /\ Topology' = Topology
  BY DEF Existing, Configured, ActiveSites, Current, Topology
<1>7. FreshInv'
  BY <1>2, <1>6 DEF IndInv, FreshInv
<1>8. ReadInv'
  BY <1>2, <1>6 DEF IndInv, ReadInv
<1>9. NumbersDistinct'
  BY <1>6 DEF IndInv, NumbersDistinct, DistinctIn
<1> QED BY <1>3, <1>4, <1>5, <1>7, <1>8, <1>9 DEF IndInv

(* The lifecycle state of a row changes and nothing else of it. *)
LEMMA LifeChange ==
  ASSUME IndInv, NEW s \in Sites, rows[s].life # "NONE", NEW l \in Lifecycle \ {"NONE"},
         rows' = [rows EXCEPT ![s].life = l]
  PROVE  rows' \in [Sites -> Rows] /\ NumbersDistinct' /\ Existing' = Existing
<1>1. rows \in [Sites -> Rows]
  BY DEF IndInv, Typed
<1>2. /\ rows' \in [Sites -> Rows]
      /\ rows'[s].life = l
      /\ \A t \in Sites \ {s} : rows'[t] = rows[t]
      /\ \A t \in Sites : /\ rows'[t].address = rows[t].address /\ rows'[t].octet = rows[t].octet
                          /\ rows'[t].index = rows[t].index /\ rows'[t].device = rows[t].device
  BY <1>1 DEF Rows
<1>3. Existing' = Existing
  BY <1>2 DEF Existing
<1>4. Existing \subseteq Sites
  BY DEF Existing
<1>5. NumbersDistinct'
  BY <1>2, <1>3, <1>4 DEF IndInv, NumbersDistinct, DistinctIn
<1> QED BY <1>2, <1>3, <1>5
-----------------------------------------------------------------------------
(* A new row: its numbers are no other's. *)
LEMMA FreshRow ==
  ASSUME IndInv, NEW s \in Sites, NEW d \in Devices, s \notin Existing,
         \A t \in Existing \ {s} : rows[t].device # d, FreeIds # {}, FreeOctets(s) # {},
         rows' = [rows EXCEPT ![s] =
             [life |-> "ALLOCATING", address |-> Min(FreeIds), octet |-> Min(FreeOctets(s)),
              index |-> 1 + Max({1} \cup Used(LAMBDA t : rows[t].index)), device |-> d]]
  PROVE  rows' \in [Sites -> Rows] /\ NumbersDistinct' /\ Existing \subseteq Existing'
<1> DEFINE addresses == {rows[t].address : t \in Existing}
           octets    == {rows[t].octet : t \in Existing}
           indexes   == {rows[t].index : t \in Existing}
           address   == Min(FreeIds)
           octet     == Min(FreeOctets(s))
           index     == 1 + Max({1} \cup indexes)
           row       == [life |-> "ALLOCATING", address |-> address, octet |-> octet, index |-> index, device |-> d]
<1>1. rows \in [Sites -> Rows]
  BY DEF IndInv, Typed
<1>2. Existing \subseteq Sites /\ IsFiniteSet(Existing)
  BY InventoryAssumption, FS_Subset DEF Existing
<1>3. FirstId \in Nat /\ LastId \in Nat /\ Number[s] \in 0 .. LastId
  BY InventoryAssumption
<1>4. address \in 0 .. LastId /\ address \notin addresses
  <2>1. FreeIds = (FirstId .. LastId) \ addresses
    BY DEF FreeIds, Used, Holders
  <2>2. FreeIds \in SUBSET Nat
    BY <1>3, <2>1
  <2>3. address \in FreeIds
    BY <2>2, LowestFree
  <2> QED BY <1>3, <2>1, <2>3
<1>5. octet \in 0 .. LastId /\ octet \notin octets
  <2>1. FreeOctets(s) = (IF Number[s] > 0 THEN {Number[s]} ELSE 1 .. LastId) \ octets
    BY DEF FreeOctets, Used, Holders
  <2>2. FreeOctets(s) \in SUBSET (0 .. LastId)
    BY <1>3, <2>1
  <2>3. FreeOctets(s) \in SUBSET Nat
    BY <1>3, <2>2
  <2>4. octet \in FreeOctets(s)
    BY <2>3, LowestFree
  <2> QED BY <2>1, <2>2, <2>4
<1>6. index \in Nat /\ index \notin indexes
  <2>1. indexes \in SUBSET Nat
    BY <1>1, <1>2 DEF Rows
  <2>2. IsFiniteSet(indexes)
    <3> DEFINE f == [t \in Existing |-> rows[t].index]
    <3>1. f \in Surjection(Existing, indexes)
      BY DEF Surjection
    <3> QED BY <1>2, <3>1, FS_Surjection
  <2> DEFINE taken == {1} \cup indexes
  <2>3. taken \in SUBSET Nat /\ IsFiniteSet(taken) /\ taken # {}
    <3>1. IsFiniteSet({1})
      BY FS_Singleton
    <3>2. IsFiniteSet(taken)
      <4> HIDE DEF indexes
      <4> QED BY <2>2, <3>1, FS_Union
    <3>3. taken \in SUBSET Nat
      <4> HIDE DEF indexes
      <4> QED BY <2>1
    <3> QED BY <3>2, <3>3
  <2>4. Max(taken) \in Nat /\ \A x \in taken : x <= Max(taken)
    <3> HIDE DEF taken
    <3>1. Max(taken) \in taken /\ \A x \in taken : x <= Max(taken)
      BY <2>3, Highest
    <3> QED BY <2>3, <3>1
  <2>5. \A x \in indexes : x \in Nat /\ x <= Max(taken)
    BY <2>1, <2>4
  <2>6. index = 1 + Max(taken)
    OBVIOUS
  <2> HIDE DEF taken, indexes, index
  <2> QED BY <2>4, <2>5, <2>6
<1>7. rows' = [rows EXCEPT ![s] = row]
  BY DEF Used, Holders
<1>8. /\ row \in Rows /\ row.life = "ALLOCATING" /\ row.address = address /\ row.octet = octet
      /\ row.index = index /\ row.device = d
  <2> HIDE DEF address, octet, index
  <2> QED BY <1>4, <1>5, <1>6 DEF Rows, Lifecycle
<1> HIDE DEF row, address, octet, index
<1>9. /\ rows' \in [Sites -> Rows] /\ rows'[s] = row
      /\ \A t \in Sites \ {s} : rows'[t] = rows[t]
  BY <1>1, <1>7, <1>8
<1>10. Existing' = Existing \cup {s}
  BY <1>8, <1>9 DEF Existing
<1>11. ASSUME NEW t \in Existing
       PROVE  /\ t # s /\ rows'[t] = rows[t] /\ rows[t].address # address /\ rows[t].octet # octet
              /\ rows[t].index # index /\ rows[t].device # d
  BY <1>2, <1>4, <1>5, <1>6, <1>9
<1>12. NumbersDistinct'
  <2>1. ASSUME NEW t \in Existing', NEW u \in Existing', t # u
        PROVE  /\ rows'[t].address # rows'[u].address /\ rows'[t].octet # rows'[u].octet
               /\ rows'[t].index # rows'[u].index /\ rows'[t].device # rows'[u].device
    <3>1. CASE t \in Existing /\ u \in Existing
      BY <1>11, <2>1, <3>1 DEF IndInv, NumbersDistinct, DistinctIn
    <3>2. CASE t = s /\ u \in Existing
      BY <1>8, <1>9, <1>11, <3>2, Zenon
    <3>3. CASE u = s /\ t \in Existing
      BY <1>8, <1>9, <1>11, <3>3, Zenon
    <3> QED BY <1>10, <2>1, <3>1, <3>2, <3>3
  <2> QED BY <2>1, Zenon DEF NumbersDistinct, DistinctIn
<1> QED BY <1>9, <1>10, <1>12

(* The configuration is one of existing sites and has the active ones. *)
LEMMA TopologySites ==
  ASSUME IndInv
  PROVE  /\ Topology \in SUBSET Sites /\ Topology \subseteq Existing
         /\ Configured \subseteq Topology /\ ActiveSites \subseteq Configured
BY InventoryAssumption DEF IndInv, ReadInv, Topology, Configured, Existing, ActiveSites

(* What the typing of the variables gives each step. *)
LEMMA TypesNow ==
  ASSUME IndInv
  PROVE  /\ rows \in [Sites -> Rows] /\ keys \in SUBSET Sites /\ leases \in SUBSET Sites /\ ownership \in Ownerships
         /\ spokeState \in [Sites -> [known : BOOLEAN, routes : SUBSET Sites]]
         /\ config \in [Processes -> SUBSET Sites] /\ job \in [Threads -> Jobs]
         /\ Alternating(ownership) /\ \A s \in Sites : ownership[s].epoch > 0 => s \in leases
         /\ \A p \in Threads : Alternating(job[p].view.owners)
BY DEF IndInv, Typed, EpochInv, ActivationInv

(* The configuration of a thread's process is renewed. *)
LEMMA RenewedConfig ==
  ASSUME IndInv, NEW p \in Threads
  PROVE  Renewed(p) \in [Processes -> SUBSET Sites]
BY Names, TypesNow, TopologySites DEF Renewed

(* A step that leaves the rows alone. *)
LEMMA SameRows ==
  ASSUME IndInv, UNCHANGED rows
  PROVE  NumbersDistinct' /\ Existing' = Existing /\ ActiveSites' = ActiveSites /\ Configured' = Configured
<1>1. Existing' = Existing /\ ActiveSites' = ActiveSites /\ Configured' = Configured
  BY DEF Existing, ActiveSites, Configured
<1> QED BY <1>1 DEF IndInv, NumbersDistinct, DistinctIn

(* allocate: a row is added, or a deleted one is used again. *)
LEMMA CreateStep ==
  ASSUME IndInv, NEW p \in Threads, NEW s \in Sites, Create(p, s)
  PROVE  IndInv'
<1>1. /\ Disturb(p, Compile) /\ FreeIds # {} /\ FreeOctets(s) # {}
      /\ UNCHANGED <<keys, leases, ownership, hubState, verified, spokeState, config, held, scenario>>
  BY DEF Create, published
<1>2. PICK d \in scenario.devices :
        /\ \A t \in Existing \ {s} : rows[t].device # d
        /\ \/ /\ s \notin Existing
              /\ rows' = [rows EXCEPT ![s] =
                   [life |-> "ALLOCATING", address |-> Min(FreeIds), octet |-> Min(FreeOctets(s)),
                    index |-> 1 + Max({1} \cup Used(LAMBDA t : rows[t].index)), device |-> d]]
           \/ rows[s].life = "DELETED" /\ rows' = [rows EXCEPT ![s].life = "ALLOCATING"]
  BY DEF Create
<1>3. d \in Devices
  <2>1. scenario \in Scenarios
    BY DEF IndInv, Typed
  <2> QED BY <1>2, <2>1, InventoryAssumption
<1>4. rows' \in [Sites -> Rows] /\ NumbersDistinct' /\ Existing \subseteq Existing'
  <2>1. CASE s \notin Existing
    <3>1. rows' = [rows EXCEPT ![s] =
             [life |-> "ALLOCATING", address |-> Min(FreeIds), octet |-> Min(FreeOctets(s)),
              index |-> 1 + Max({1} \cup Used(LAMBDA t : rows[t].index)), device |-> d]]
      BY <1>2, <2>1 DEF Existing
    <3> QED BY <1>1, <1>2, <1>3, <2>1, <3>1, FreshRow
  <2>2. CASE s \in Existing
    <3>1. rows[s].life # "NONE" /\ rows' = [rows EXCEPT ![s].life = "ALLOCATING"]
      BY <1>2, <2>2 DEF Existing
    <3>2. "ALLOCATING" \in Lifecycle \ {"NONE"}
      BY DEF Lifecycle
    <3> QED BY <3>1, <3>2, LifeChange
  <2> QED BY <2>1, <2>2
<1> QED BY <1>1, <1>4, TypesNow, IdleFields, DisturbStep DEF Compiling

(* transition_site by the manager. *)
LEMMA TransitionStep ==
  ASSUME IndInv, NEW p \in Threads, NEW s \in Sites, TransitionSite(p, s)
  PROVE  IndInv'
<1>1. /\ Disturb(p, Compile)
      /\ UNCHANGED <<keys, leases, ownership, hubState, verified, spokeState, config, held, scenario>>
  BY DEF TransitionSite, published
<1>2. PICK l \in Moves(s) : rows' = [rows EXCEPT ![s].life = l]
  BY DEF TransitionSite
<1>3. l \in Lifecycle \ {"NONE"} /\ rows[s].life # "NONE"
  BY <1>2 DEF Moves, Lifecycle
<1>4. rows' \in [Sites -> Rows] /\ NumbersDistinct' /\ Existing \subseteq Existing'
  BY <1>2, <1>3, LifeChange
<1> QED BY <1>1, <1>4, TypesNow, IdleFields, DisturbStep DEF Compiling

(* The deletion retires a key. *)
LEMMA RetireStep ==
  ASSUME IndInv, NEW p \in Threads, NEW s \in Sites, RetireKey(p, s)
  PROVE  IndInv'
<1>1. /\ Disturb(p, Idle) /\ keys' = keys \ {s}
      /\ UNCHANGED <<rows, leases, ownership, hubState, verified, spokeState, config, held, scenario>>
  BY DEF RetireKey, published
<1>2. keys' \in SUBSET Sites
  BY <1>1, TypesNow
<1> QED BY <1>1, <1>2, TypesNow, SameRows, IdleFields, DisturbStep DEF Compiling

(* The key of an admitted edge is recorded. *)
LEMMA RegisterKeyStep ==
  ASSUME IndInv, NEW p \in Threads, RegisterKey(p)
  PROVE  IndInv'
<1> DEFINE new == [job[p] EXCEPT !.pc = "promote"]
<1>1. /\ Disturb(p, new) /\ keys' = keys \cup {job[p].site} /\ job[p].pc = "register"
      /\ UNCHANGED <<rows, leases, ownership, hubState, verified, spokeState, config, held, scenario>>
  BY DEF RegisterKey, published, At
<1>2. job[p].site \in Sites /\ ~job[p].fresh
  BY <1>1 DEF IndInv, ActivationInv, FreshInv, Compiling
<1>3. new \in Jobs /\ new.pc = "promote" /\ new.site \in Sites /\ ~new.fresh /\ new.view = job[p].view
  BY <1>2, TypesNow DEF Jobs
<1>4. keys' \in SUBSET Sites
  BY <1>1, <1>2, TypesNow
<1> HIDE DEF new
<1> QED BY <1>1, <1>3, <1>4, TypesNow, SameRows, DisturbStep DEF Compiling

(* A registered site is promoted. *)
LEMMA PromoteStep ==
  ASSUME IndInv, NEW p \in Threads, Promote(p)
  PROVE  IndInv'
<1> DEFINE s == job[p].site
<1>1. /\ job[p].pc = "promote"
      /\ UNCHANGED <<keys, leases, ownership, hubState, verified, spokeState, config, held, scenario>>
  BY DEF Promote, published, At
<1>2. s \in Sites
  BY <1>1 DEF IndInv, ActivationInv
<1>3. CASE rows[s].life = "STAGED" /\ rows' = [rows EXCEPT ![s].life = "PROVISIONING"] /\ Disturb(p, Compile)
  <2>1. "PROVISIONING" \in Lifecycle \ {"NONE"}
    BY DEF Lifecycle
  <2>2. rows' \in [Sites -> Rows] /\ NumbersDistinct' /\ Existing \subseteq Existing'
    BY <1>2, <1>3, <2>1, LifeChange
  <2> QED BY <1>1, <1>3, <2>2, TypesNow, IdleFields, DisturbStep DEF Compiling
<1>4. CASE Continue(p, Compile) /\ UNCHANGED rows
  BY <1>1, <1>4, TypesNow, IdleFields, ContinueStep DEF Compiling, database, published
<1> QED BY <1>3, <1>4 DEF Promote

(* A site becomes ACTIVE. *)
LEMMA AckSpokeStep ==
  ASSUME IndInv, NEW p \in Threads, NEW s \in Sites, AckSpoke(p, s)
  PROVE  IndInv'
<1>1. /\ rows[s].life = "PROVISIONING" /\ rows' = [rows EXCEPT ![s].life = "ACTIVE"]
      /\ config' = Renewed(p) /\ Disturb(p, Compile)
      /\ UNCHANGED <<keys, leases, ownership, hubState, verified, spokeState, held, scenario>>
  BY DEF AckSpoke, published
<1>2. "ACTIVE" \in Lifecycle \ {"NONE"}
  BY DEF Lifecycle
<1>3. rows' \in [Sites -> Rows] /\ NumbersDistinct' /\ Existing \subseteq Existing'
  BY <1>1, <1>2, LifeChange
<1> QED BY <1>1, <1>3, TypesNow, RenewedConfig, IdleFields, DisturbStep DEF Compiling

(* The leases of a site are taken: it has had no owner, so its epoch is 1. *)
LEMMA ActivateStep ==
  ASSUME IndInv, NEW p \in Threads, NEW s \in Sites, Activate(p, s)
  PROVE  IndInv'
<1> DEFINE new == [Idle EXCEPT !.pc = "own", !.site = s, !.epoch = ownership[s].epoch + 1]
<1>1. /\ s \notin leases /\ leases' = leases \cup {s} /\ Disturb(p, new)
      /\ UNCHANGED <<rows, keys, ownership, hubState, verified, spokeState, config, held, scenario>>
  BY DEF Activate, ReserveResources, published
<1>2. ownership[s].epoch \in Nat
  BY InventoryAssumption, TypesNow DEF Ownerships
<1>3. ownership[s].epoch + 1 = 1 /\ 1 \in 0 .. MaxEpoch
  BY <1>1, <1>2, TypesNow, InventoryAssumption
<1>4. new = [Idle EXCEPT !.pc = "own", !.site = s, !.epoch = 1]
  BY <1>3, Zenon
<1>5. new \in Jobs /\ new.pc = "own" /\ new.site = s /\ new.epoch = 1 /\ ~new.fresh /\ new.view = Idle.view
  <2> HIDE DEF new
  <2> QED BY <1>3, <1>4, IdleFields DEF Jobs
<1>6. leases' \in SUBSET Sites /\ leases \subseteq leases' /\ s \in leases'
  BY <1>1, TypesNow
<1>7. \A t \in Sites : ownership'[t].epoch > 0 => t \in leases'
  BY <1>1, <1>6, TypesNow
<1> HIDE DEF new
<1> QED BY <1>1, <1>5, <1>6, <1>7, TypesNow, SameRows, IdleFields, DisturbStep DEF Compiling

(* The first owner is recorded, unless a record is there. *)
LEMMA ActivateOwnerStep ==
  ASSUME IndInv, NEW p \in Threads, ActivateOwner(p)
  PROVE  IndInv'
<1> DEFINE s    == job[p].site
           mine == [owner |-> "hub1", epoch |-> job[p].epoch]
           new  == IF mine.epoch < ownership[s].epoch THEN Idle ELSE [job[p] EXCEPT !.pc = "put"]
<1>1. /\ job[p].pc = "own" /\ ownership' = TransferOwnership(s, mine) /\ Disturb(p, new)
      /\ UNCHANGED <<rows, keys, leases, hubState, verified, spokeState, config, held, scenario>>
  BY DEF ActivateOwner, published, At
<1>2. s \in Sites /\ s \in leases /\ job[p].epoch = 1 /\ ~job[p].fresh
  BY <1>1 DEF IndInv, ActivationInv, FreshInv, Compiling
<1>3. new \in Jobs /\ new.pc \in {"idle", "put"} /\ (new.pc = "put" => new.site \in Sites) /\ ~new.fresh
      /\ Alternating(new.view.owners)
  <2>1. CASE mine.epoch < ownership[s].epoch
    BY <2>1, IdleFields
  <2>2. CASE ~(mine.epoch < ownership[s].epoch)
    <3>1. new = [job[p] EXCEPT !.pc = "put"]
      BY <2>2
    <3>2. job[p] \in Jobs /\ Alternating(job[p].view.owners)
      BY TypesNow
    <3>3. new \in Jobs /\ new.pc = "put" /\ new.site = job[p].site /\ ~new.fresh /\ new.view = job[p].view
      <4> HIDE DEF new
      <4> QED BY <1>2, <3>1, <3>2 DEF Jobs
    <3> QED BY <1>2, <3>2, <3>3
  <2> QED BY <2>1, <2>2
<1>4. mine \in [owner : Hubs \cup {None}, epoch : 0 .. MaxEpoch] /\ mine.epoch = 1 /\ mine.owner = OwnerAt(1)
  BY <1>2, InventoryAssumption DEF Hubs, OwnerAt
<1>5. \/ ownership' = ownership
      \/ ownership' = [ownership EXCEPT ![s] = mine]
  BY <1>1 DEF TransferOwnership
<1>6. /\ ownership' \in Ownerships /\ Alternating(ownership')
      /\ \A t \in Sites : ownership'[t].epoch > 0 => t \in leases'
  <2> HIDE DEF s, mine
  <2>1. CASE ownership' = ownership
    BY <1>1, <2>1, TypesNow
  <2>2. CASE ownership' = [ownership EXCEPT ![s] = mine]
    <3>1. ownership' \in Ownerships /\ ownership'[s] = mine /\ \A t \in Sites \ {s} : ownership'[t] = ownership[t]
      BY <1>2, <1>4, <2>2, TypesNow DEF Ownerships
    <3> QED BY <1>1, <1>2, <1>4, <3>1, TypesNow DEF Alternating
  <2> QED BY <1>5, <2>1, <2>2
<1> HIDE DEF new, mine, s
<1> QED BY <1>1, <1>3, <1>6, TypesNow, SameRows, DisturbStep DEF Compiling

(* The first desired state of a spoke. *)
LEMMA ActivatePutStep ==
  ASSUME IndInv, NEW p \in Threads, ActivatePut(p)
  PROVE  IndInv'
<1> DEFINE s == job[p].site
<1>1. /\ job[p].pc = "put" /\ spokeState' = [spokeState EXCEPT ![s] = BuildSpoke(config[Process[p]], s)]
      /\ Disturb(p, Idle)
      /\ UNCHANGED <<rows, keys, leases, ownership, hubState, verified, config, held, scenario>>
  BY DEF ActivatePut, database, At
<1>2. s \in Sites
  BY <1>1 DEF IndInv, ActivationInv
<1>3. BuildSpoke(config[Process[p]], s) \in [known : BOOLEAN, routes : SUBSET Sites]
  BY Names, TypesNow DEF BuildSpoke
<1>4. spokeState' \in [Sites -> [known : BOOLEAN, routes : SUBSET Sites]]
  BY <1>1, <1>2, <1>3, TypesNow
<1> QED BY <1>1, <1>4, TypesNow, SameRows, IdleFields, DisturbStep DEF Compiling

(* The manager compiles on demand. *)
LEMMA RecompileStep ==
  ASSUME IndInv, NEW p \in Threads, Recompile(p)
  PROVE  IndInv'
<1>1. Continue(p, Compile) /\ UNCHANGED <<database, published, config, held, scenario>>
  BY DEF Recompile
<1> QED BY <1>1, TypesNow, IdleFields, ContinueStep DEF Compiling

(* The registration of an edge is admitted. *)
LEMMA RegisterCallStep ==
  ASSUME IndInv, NEW p \in Threads, NEW s \in Sites, RegisterCall(p, s)
  PROVE  IndInv'
<1> DEFINE new == [Idle EXCEPT !.pc = "register", !.site = s]
<1>1. /\ config' = Renewed(p) /\ Continue(p, new)
      /\ UNCHANGED <<database, published, held, scenario>>
  BY DEF RegisterCall
<1>2. new \in Jobs /\ new.pc = "register" /\ new.site = s /\ ~new.fresh /\ new.view = Idle.view
  BY IdleFields DEF Jobs
<1> HIDE DEF new
<1> QED BY <1>1, <1>2, RenewedConfig, IdleFields, ContinueStep DEF Compiling

(* A compilation reads what there is, or fails. *)
LEMMA ReadStep ==
  ASSUME IndInv, NEW p \in Threads, Read(p)
  PROVE  IndInv'
<1> DEFINE new == [Idle EXCEPT !.pc = "hub1", !.view = View, !.fresh = TRUE]
<1>1. UNCHANGED <<database, published, held, scenario>>
  BY DEF Read
<1>2. CASE Valid
  <2>1. config' = Renewed(p) /\ Continue(p, new)
    BY <1>2 DEF Read
  <2>2. config' \in [Processes -> SUBSET Sites]
    BY <2>1, RenewedConfig
  <2>3. View = Current /\ Current \in Views /\ Current.sites = Topology /\ Current.owners = ownership
    BY TypesNow, TopologySites DEF View, Current, Views
  <2>4. new = [Idle EXCEPT !.pc = "hub1", !.view = Current, !.fresh = TRUE]
    BY <2>3, Zenon
  <2>5. new \in Jobs /\ new.pc = "hub1" /\ new.view = Current /\ new.fresh
    <3> HIDE DEF new
    <3> QED BY <2>3, <2>4, IdleFields DEF Jobs
  <2>6. new.view.sites \subseteq Existing /\ Alternating(new.view.owners)
    BY <2>3, <2>5, TopologySites, TypesNow
  <2> HIDE DEF new
  <2> QED BY <1>1, <2>1, <2>2, <2>5, <2>6, ContinueStep DEF Compiling
<1>3. CASE ~Valid
  <2>1. Continue(p, Idle) /\ config' = config
    BY <1>3 DEF Read
  <2> QED BY <1>1, <2>1, TypesNow, IdleFields, ContinueStep DEF Compiling
<1> QED BY <1>2, <1>3

(* An operation is cut short. *)
LEMMA AbandonStep ==
  ASSUME IndInv, NEW p \in Threads, Abandon(p)
  PROVE  IndInv'
<1>1. /\ Continue(p, Idle) /\ UNCHANGED <<database, published, held, scenario>>
      /\ config' = config \/ config' = Renewed(p)
  BY DEF Abandon
<1>2. config' \in [Processes -> SUBSET Sites]
  BY <1>1, TypesNow, RenewedConfig
<1> QED BY <1>1, <1>2, IdleFields, ContinueStep DEF Compiling

(* A write of a compilation: others are disturbed when it is stale. *)
LEMMA PublishFields ==
  ASSUME job \in [Threads -> Jobs], settled \in BOOLEAN, NEW p \in Threads, NEW new \in Jobs,
         new.fresh = job[p].fresh, Publish(p, new)
  PROVE  /\ job' \in [Threads -> Jobs] /\ settled' \in BOOLEAN /\ job'[p] = new
         /\ \A q \in Threads \ {p} : /\ job'[q].pc = job[q].pc /\ job'[q].site = job[q].site
                                       /\ job'[q].epoch = job[q].epoch /\ job'[q].view = job[q].view
         /\ job[p].fresh => settled' = settled /\ \A q \in Threads \ {p} : job'[q] = job[q]
         /\ ~job[p].fresh => ~settled' /\ \A q \in Threads : ~job'[q].fresh
<1>1. CASE job[p].fresh
  <2>1. Continue(p, new)
    BY <1>1 DEF Publish
  <2> QED BY <1>1, <2>1, ContinueFields
<1>2. CASE ~job[p].fresh
  <2>1. Disturb(p, new)
    BY <1>2 DEF Publish
  <2> QED BY <1>2, <2>1, DisturbFields
<1> QED BY <1>1, <1>2

(* A desired state of a hub is written, or is the same as before. *)
LEMMA PublishHubStep ==
  ASSUME IndInv, NEW p \in Threads, NEW h \in Hubs, PublishHub(p, h)
  PROVE  IndInv'
<1> DEFINE state == BuildHub(job[p].view)
           new   == [job[p] EXCEPT !.pc = IF h = "hub1" THEN "hub2" ELSE "spokes"]
<1>1. job[p].pc = h /\ UNCHANGED <<rows, keys, leases, ownership, spokeState, config, held, scenario>>
  BY DEF PublishHub, database, At
<1>2. job[p] \in Jobs /\ job[p].view \in Views /\ job[p].pc \in Compiling /\ Alternating(job[p].view.owners)
  BY <1>1, TypesNow, Names DEF Jobs, Compiling
<1>3. /\ new \in Jobs /\ new.view = job[p].view /\ new.fresh = job[p].fresh
      /\ new.pc = (IF h = "hub1" THEN "hub2" ELSE "spokes")
  BY <1>2 DEF Jobs
<1>4. new.pc \in {"hub2", "spokes"} /\ (new.pc = "spokes" => h = "hub2") /\ (new.pc = "hub2" => h = "hub1")
  BY <1>3, Names
<1>5. job[p].view.sites \subseteq Existing
  BY <1>2 DEF IndInv, ReadInv
<1>6. /\ state \in HubStates /\ state.peers \subseteq state.routes /\ Alternating(state.owners)
  BY <1>2 DEF BuildHub, HubStates, Views
<1>7. job[p].fresh => /\ job[p].view = Current /\ state = BuildHub(Current)
                      /\ h # "hub1" => hubState["hub1"] = BuildHub(Current)
  BY <1>1 DEF IndInv, FreshInv
<1> HIDE DEF new
<1>8. CASE ~Changed(hubState[h], state) /\ Continue(p, new) /\ UNCHANGED <<hubState, verified>>
  <2>1. hubState[h] = state
    BY <1>8 DEF Changed
  <2>2. new.fresh => /\ new.pc \in Compiling /\ new.view = Current
                     /\ new.pc # "hub1" => hubState["hub1"] = BuildHub(Current)
                     /\ new.pc = "spokes" => hubState["hub2"] = BuildHub(Current)
    <3> HIDE DEF state
    <3> QED BY <1>3, <1>4, <1>7, <2>1 DEF Compiling
  <2>3. UNCHANGED <<database, published, held, scenario>> /\ config' \in [Processes -> SUBSET Sites]
    BY <1>1, <1>8, TypesNow DEF database, published
  <2>4. Alternating(new.view.owners) /\ new.pc \notin {"register", "promote", "own", "put"}
    BY <1>2, <1>3, <1>4
  <2>5. new.view.sites \subseteq Existing
    BY <1>3, <1>5
  <2> QED BY <1>3, <1>8, <2>2, <2>3, <2>4, <2>5, ContinueStep
<1>9. CASE hubState' = [hubState EXCEPT ![h] = state] /\ verified' = verified \ {h} /\ Publish(p, new)
  <2> HIDE DEF state
  <2>1. job \in [Threads -> Jobs] /\ settled \in BOOLEAN /\ hubState \in [Hubs -> HubStates] /\ verified \in SUBSET Hubs
    BY DEF IndInv, Typed
  <2>2. /\ job' \in [Threads -> Jobs] /\ settled' \in BOOLEAN /\ job'[p] = new
        /\ \A q \in Threads \ {p} : /\ job'[q].pc = job[q].pc /\ job'[q].site = job[q].site
                                      /\ job'[q].epoch = job[q].epoch /\ job'[q].view = job[q].view
        /\ job[p].fresh => settled' = settled /\ \A q \in Threads \ {p} : job'[q] = job[q]
        /\ ~job[p].fresh => ~settled' /\ \A q \in Threads : ~job'[q].fresh
    BY <1>3, <1>9, <2>1, PublishFields
  <2>3. /\ hubState' \in [Hubs -> HubStates] /\ hubState'[h] = state
        /\ \A g \in Hubs \ {h} : hubState'[g] = hubState[g]
        /\ verified' \in SUBSET Hubs
    BY <1>6, <1>9, <2>1
  <2>4. Typed'
    BY <1>1, <1>6, <2>2, <2>3 DEF IndInv, Typed
  <2>5. ActivationInv'
    BY <1>1, <1>4, <2>2 DEF IndInv, ActivationInv
  <2>6. EpochInv'
    BY <1>1, <1>2, <1>3, <1>6, <2>2, <2>3 DEF IndInv, EpochInv
  <2>7. /\ Current' = Current /\ Topology' = Topology
    BY <1>1 DEF Current, Topology, Configured
  <2>8. FreshInv'
    <3>1. CASE ~job[p].fresh
      BY <2>2, <3>1 DEF FreshInv
    <3>2. CASE job[p].fresh
      <4>1. state = BuildHub(Current) /\ job[p].view = Current
        BY <1>7, <3>2
      <4>2. \A g \in Hubs : hubState[g] = BuildHub(Current) => hubState'[g] = BuildHub(Current)
        BY <2>3, <4>1
      <4>3. ASSUME NEW q \in Threads, job'[q].fresh
            PROVE  /\ job'[q].pc \in Compiling /\ job'[q].view = Current
                   /\ job'[q].pc # "hub1" => hubState'["hub1"] = BuildHub(Current)
                   /\ job'[q].pc = "spokes" => hubState'["hub2"] = BuildHub(Current)
        <5>1. CASE q = p
          BY <1>3, <1>4, <1>7, <2>2, <2>3, <3>2, <4>1, <4>2, <5>1, Names DEF Compiling
        <5>2. CASE q # p
          BY <2>2, <3>2, <4>2, <4>3, <5>2, Names DEF IndInv, FreshInv
        <5> QED BY <5>1, <5>2
      <4>4. settled' => /\ \A g \in Hubs : hubState'[g] = BuildHub(Current)
                        /\ \A s \in ActiveSites \cap keys : spokeState[s] = BuildSpoke(Topology, s)
        BY <2>2, <3>2, <4>2 DEF IndInv, FreshInv
      <4>5. BuildHub(Current)' = BuildHub(Current) /\ ActiveSites' = ActiveSites
        BY <1>1, <2>7 DEF BuildHub, ActiveSites
      <4>6. \A s \in Sites : BuildSpoke(Topology, s)' = BuildSpoke(Topology, s)
        BY <2>7 DEF BuildSpoke
      <4> QED BY <1>1, <2>7, <4>3, <4>4, <4>5, <4>6 DEF FreshInv
    <3> QED BY <3>1, <3>2
  <2>9. NumbersDistinct' /\ Existing' = Existing /\ ActiveSites' = ActiveSites /\ Configured' = Configured
    BY <1>1, SameRows
  <2>10. ReadInv'
    BY <1>2, <1>3, <1>5, <2>2, <2>9, Names DEF IndInv, ReadInv
  <2> QED BY <2>4, <2>5, <2>6, <2>8, <2>9, <2>10 DEF IndInv
<1> QED BY <1>8, <1>9 DEF PublishHub, new

(* The desired states of the active spokes end the compilation. *)
LEMMA PublishSpokesStep ==
  ASSUME IndInv, NEW p \in Threads, PublishSpokes(p)
  PROVE  IndInv'
<1> DEFINE view == job[p].view
           due  == {s \in view.keys : rows[s].life = "ACTIVE"}
           Put(built) == [s \in Sites |-> IF s \in built THEN BuildSpoke(view.sites, s) ELSE spokeState[s]]
<1>1. /\ job[p].pc = "spokes" /\ \E built : spokeState' = Put(built)
      /\ UNCHANGED <<rows, keys, leases, ownership, hubState, verified, config, held, scenario>>
  BY DEF PublishSpokes, database, At
<1>2. view \in Views
  BY TypesNow DEF Jobs
<1>3. spokeState' \in [Sites -> [known : BOOLEAN, routes : SUBSET Sites]]
  <2>1. \A s \in Sites : BuildSpoke(view.sites, s) \in [known : BOOLEAN, routes : SUBSET Sites]
    BY <1>2 DEF BuildSpoke, Views
  <2> HIDE DEF view
  <2> QED BY <1>1, <2>1, TypesNow
<1>4. CASE Disturb(p, Idle)
  BY <1>1, <1>3, <1>4, TypesNow, SameRows, IdleFields, DisturbStep DEF Compiling
<1>5. CASE /\ job[p].fresh /\ job' = [job EXCEPT ![p] = Idle] /\ settled' = TRUE
           /\ spokeState' = Put(due)
  <2>1. job' = [job EXCEPT ![p] = Idle] /\ settled' = TRUE
    BY <1>5
  <2>2. job' \in [Threads -> Jobs] /\ job'[p] = Idle /\ \A q \in Threads \ {p} : job'[q] = job[q]
    BY <2>1, TypesNow, IdleFields
  <2>3. Typed'
    BY <1>1, <1>3, <2>1, <2>2 DEF IndInv, Typed
  <2>4. ActivationInv'
    BY <1>1, <2>2, IdleFields DEF IndInv, ActivationInv
  <2>5. EpochInv'
    BY <1>1, <2>2, IdleFields DEF IndInv, EpochInv
  <2>6. NumbersDistinct' /\ Existing' = Existing /\ ActiveSites' = ActiveSites /\ Configured' = Configured
    BY <1>1, SameRows
  <2>7. ReadInv'
    BY <2>2, <2>6, IdleFields, Names DEF IndInv, ReadInv, Compiling
  <2>8. Current' = Current /\ Topology' = Topology /\ BuildHub(Current)' = BuildHub(Current)
    BY <1>1, <2>6 DEF Current, Topology, BuildHub
  <2>9. view = Current /\ \A h \in Hubs : hubState[h] = BuildHub(Current)
    BY <1>1, <1>5, Names DEF IndInv, FreshInv
  <2>10. \A s \in ActiveSites \cap keys : spokeState'[s] = BuildSpoke(Topology, s)
    <3>1. view.sites = Topology /\ view.keys = keys
      BY <2>9 DEF Current
    <3>2. \A s \in ActiveSites \cap keys : s \in Sites /\ s \in due
      BY <3>1 DEF ActiveSites
    <3> HIDE DEF view, due
    <3> QED BY <1>5, <3>1, <3>2
  <2>11. \A s \in Sites : BuildSpoke(Topology, s)' = BuildSpoke(Topology, s)
    BY <2>8 DEF BuildSpoke
  <2>12. ActiveSites \subseteq Sites
    BY DEF ActiveSites
  <2>13. FreshInv'
    <3>1. ASSUME NEW q \in Threads, job'[q].fresh
          PROVE  job[q].fresh /\ job'[q] = job[q]
      BY <2>2, <3>1, IdleFields
    <3>2. \A q \in Threads : job'[q].fresh =>
            /\ job'[q].pc \in Compiling /\ job'[q].view = Current
            /\ job'[q].pc # "hub1" => hubState["hub1"] = BuildHub(Current)
            /\ job'[q].pc = "spokes" => hubState["hub2"] = BuildHub(Current)
      BY <3>1 DEF IndInv, FreshInv
    <3> QED BY <1>1, <2>6, <2>8, <2>9, <2>10, <2>11, <2>12, <3>2 DEF FreshInv
  <2> QED BY <2>3, <2>4, <2>5, <2>6, <2>7, <2>13 DEF IndInv
<1> QED BY <1>4, <1>5 DEF PublishSpokes

(* A step that changes neither the database nor a desired state, and no    *)
(* operation of the services.                                              *)
LEMMA QuietStep ==
  ASSUME IndInv, UNCHANGED <<database, hubState, spokeState, job, settled, scenario>>,
         verified' \in SUBSET Hubs, config' \in [Processes -> SUBSET Sites], held' \in [Coordinators -> Records],
         \A c \in Coordinators : /\ held'[c].owner = OwnerAt(held'[c].epoch)
                                 /\ held'[c].epoch > 0 => held'[c].site \in leases
  PROVE  IndInv'
<1> USE DEF database
<1>1. Typed'
  BY DEF IndInv, Typed
<1>2. ActivationInv'
  BY DEF IndInv, ActivationInv
<1>3. EpochInv'
  BY DEF IndInv, EpochInv
<1>4. NumbersDistinct' /\ Existing' = Existing /\ ActiveSites' = ActiveSites /\ Configured' = Configured
  BY SameRows
<1>5. Current' = Current /\ Topology' = Topology
  BY <1>4 DEF Current, Topology
<1>6. FreshInv'
  BY <1>4, <1>5 DEF IndInv, FreshInv
<1>7. ReadInv'
  BY <1>4 DEF IndInv, ReadInv
<1> QED BY <1>1, <1>2, <1>3, <1>4, <1>6, <1>7 DEF IndInv

(* What the coordinators hold. *)
LEMMA HeldNow ==
  ASSUME IndInv
  PROVE  /\ held \in [Coordinators -> Records] /\ verified \in SUBSET Hubs
         /\ \A c \in Coordinators : /\ held[c].owner = OwnerAt(held[c].epoch)
                                    /\ held[c].epoch > 0 => held[c].site \in leases
BY DEF IndInv, Typed, EpochInv, ActivationInv

(* A hub verifies its desired state. *)
LEMMA AckHubStep ==
  ASSUME IndInv, NEW h \in Hubs, AckHub(h)
  PROVE  IndInv'
<1>1. /\ verified' = verified \cup {h} /\ config' = [config EXCEPT !["policy"] = Topology]
      /\ UNCHANGED <<database, hubState, spokeState, job, held, settled, scenario>>
  BY DEF AckHub
<1>2. verified' \in SUBSET Hubs /\ config' \in [Processes -> SUBSET Sites]
  BY <1>1, HeldNow, TypesNow, TopologySites
<1> QED BY <1>1, <1>2, HeldNow, QuietStep

(* A coordinator reads an ownership record. *)
LEMMA FetchStep ==
  ASSUME IndInv, NEW c \in Coordinators, NEW s \in Sites, Fetch(c, s)
  PROVE  IndInv'
<1> DEFINE record == [site |-> s, owner |-> ownership[s].owner, epoch |-> ownership[s].epoch]
<1>1. /\ ownership[s].epoch > 0 /\ held' = [held EXCEPT ![c] = record]
      /\ UNCHANGED <<database, hubState, spokeState, job, settled, scenario>> /\ UNCHANGED <<verified, config>>
  BY DEF Fetch, published
<1>2. record \in Records /\ record.owner = OwnerAt(record.epoch) /\ record.site \in leases
  BY <1>1, TypesNow DEF Records, Ownerships, Alternating
<1> HIDE DEF record
<1>3. held' \in [Coordinators -> Records] /\ held'[c] = record /\ \A d \in Coordinators \ {c} : held'[d] = held[d]
  BY <1>1, <1>2, HeldNow
<1>4. \A d \in Coordinators : /\ held'[d].owner = OwnerAt(held'[d].epoch)
                              /\ held'[d].epoch > 0 => held'[d].site \in leases
  BY <1>2, <1>3, HeldNow
<1> QED BY <1>1, <1>3, <1>4, HeldNow, TypesNow, QuietStep

(* A record with the next epoch names the other hub. *)
LEMMA NextOwner ==
  ASSUME NEW record \in Records, record.epoch > 0, record.epoch < MaxEpoch, record.owner = OwnerAt(record.epoch)
  PROVE  LET new == NextRecord(record)
         IN  /\ new \in Records /\ new.site = record.site /\ new.epoch = record.epoch + 1
             /\ new.owner = OwnerAt(new.epoch) /\ new.owner \in Hubs
<1> DEFINE other == CHOOSE h \in Hubs : h # record.owner
           e     == record.epoch
<1>1. e \in Nat /\ e \in 0 .. MaxEpoch /\ e + 1 \in 0 .. MaxEpoch
  BY InventoryAssumption DEF Records
<1>2. other \in Hubs /\ other # record.owner
  <2>1. \E h \in Hubs : h # record.owner
    BY DEF Hubs
  <2> QED BY <2>1
<1>3. other = OwnerAt(e + 1)
  <2>1. CASE e % 2 = 1
    <3>1. (e + 1) % 2 = 0 /\ e + 1 # 0 /\ e # 0
      BY <1>1, <2>1
    <3>2. record.owner = "hub1" /\ OwnerAt(e + 1) = "hub2"
      BY <2>1, <3>1 DEF OwnerAt
    <3> QED BY <1>2, <3>2 DEF Hubs
  <2>2. CASE e % 2 = 0
    <3>1. (e + 1) % 2 = 1 /\ e + 1 # 0 /\ e # 0
      BY <1>1, <2>2
    <3>2. record.owner = "hub2" /\ OwnerAt(e + 1) = "hub1"
      BY <2>2, <3>1 DEF OwnerAt
    <3> QED BY <1>2, <3>2 DEF Hubs
  <2> QED BY <1>1, <2>1, <2>2
<1>4. NextRecord(record) = [record EXCEPT !.owner = other, !.epoch = e + 1]
  BY Zenon DEF NextRecord
<1> HIDE DEF other
<1> QED BY <1>1, <1>2, <1>3, <1>4 DEF Records

(* A coordinator transfers a prefix to the other hub. *)
LEMMA TransferStep ==
  ASSUME IndInv, NEW c \in Coordinators, Transfer(c)
  PROVE  IndInv'
<1> DEFINE new  == NextRecord(held[c])
           s    == held[c].site
           mine == [owner |-> new.owner, epoch |-> new.epoch]
<1>1. /\ held[c].epoch > 0 /\ held[c].epoch < MaxEpoch /\ ownership' = TransferOwnership(s, mine)
      /\ held' = (IF new.epoch < ownership[s].epoch THEN held ELSE [held EXCEPT ![c] = new])
      /\ Disturb(None, Idle)
      /\ UNCHANGED <<rows, keys, leases, hubState, verified, spokeState, config, scenario>>
  BY DEF Transfer, published
<1>2. held[c] \in Records /\ s \in leases /\ s \in Sites /\ held[c].owner = OwnerAt(held[c].epoch)
  BY <1>1, HeldNow, TypesNow
<1>3. /\ new \in Records /\ new.site = s /\ new.owner = OwnerAt(new.epoch) /\ new.owner \in Hubs
  BY <1>1, <1>2, NextOwner
<1>4. mine \in [owner : Hubs \cup {None}, epoch : 0 .. MaxEpoch] /\ mine.owner = OwnerAt(mine.epoch)
  <2> HIDE DEF new
  <2> QED BY <1>3 DEF Records
<1> HIDE DEF new, mine, s
<1>5. /\ ownership' \in Ownerships /\ Alternating(ownership')
      /\ \A t \in Sites : ownership'[t].epoch > 0 => t \in leases'
  <2>1. CASE ownership' = ownership
    BY <1>1, <2>1, TypesNow
  <2>2. CASE ownership' = [ownership EXCEPT ![s] = mine]
    <3>1. ownership' \in Ownerships /\ ownership'[s] = mine /\ \A t \in Sites \ {s} : ownership'[t] = ownership[t]
      BY <1>2, <1>4, <2>2, TypesNow DEF Ownerships
    <3> QED BY <1>1, <1>2, <1>4, <3>1, TypesNow DEF Alternating
  <2> QED BY <1>1, <2>1, <2>2 DEF TransferOwnership
<1>6. /\ held' \in [Coordinators -> Records]
      /\ \A d \in Coordinators : /\ held'[d].owner = OwnerAt(held'[d].epoch)
                                 /\ held'[d].epoch > 0 => held'[d].site \in leases'
  <2>1. CASE held' = held
    BY <1>1, <2>1, HeldNow
  <2>2. CASE held' = [held EXCEPT ![c] = new]
    <3>1. held' \in [Coordinators -> Records] /\ held'[c] = new /\ \A d \in Coordinators \ {c} : held'[d] = held[d]
      BY <1>3, <2>2, HeldNow
    <3> QED BY <1>1, <1>2, <1>3, <3>1, HeldNow
  <2> QED BY <1>1, <2>1, <2>2
<1>7. /\ job' \in [Threads -> Jobs] /\ settled' = FALSE
      /\ \A q \in Threads : ~job'[q].fresh
      /\ \A q \in Threads : /\ job'[q].pc = job[q].pc /\ job'[q].site = job[q].site
                              /\ job'[q].epoch = job[q].epoch /\ job'[q].view = job[q].view
  <2>1. job \in [Threads -> Jobs] /\ Idle \in Jobs /\ ~Idle.fresh
    BY TypesNow, IdleFields
  <2>2. /\ job' \in [Threads -> Jobs] /\ settled' = FALSE
        /\ \A q \in Threads : ~job'[q].fresh
        /\ \A q \in Threads \ {None} : /\ job'[q].pc = job[q].pc /\ job'[q].site = job[q].site
                                         /\ job'[q].epoch = job[q].epoch /\ job'[q].view = job[q].view
    BY <1>1, <2>1, DisturbFields
  <2>3. Threads \ {None} = Threads
    BY Names
  <2> QED BY <2>2, <2>3
<1>8. Typed'
  BY <1>1, <1>5, <1>6, <1>7 DEF IndInv, Typed
<1>9. ActivationInv'
  BY <1>1, <1>5, <1>6, <1>7 DEF IndInv, ActivationInv
<1>10. EpochInv'
  BY <1>1, <1>5, <1>6, <1>7 DEF IndInv, EpochInv
<1>11. FreshInv'
  BY <1>7 DEF FreshInv
<1>12. NumbersDistinct' /\ Existing' = Existing /\ ActiveSites' = ActiveSites /\ Configured' = Configured
  BY <1>1, SameRows
<1>13. ReadInv'
  BY <1>7, <1>12, Names DEF IndInv, ReadInv
<1> QED BY <1>8, <1>9, <1>10, <1>11, <1>12, <1>13 DEF IndInv

(* Nothing changes. *)
LEMMA StutterStep ==
  ASSUME IndInv, UNCHANGED vars
  PROVE  IndInv'
<1>1. UNCHANGED <<database, hubState, spokeState, job, settled, scenario>> /\ UNCHANGED <<verified, config, held, leases>>
  BY DEF vars, database, published
<1> QED BY <1>1, HeldNow, TypesNow, QuietStep

(* Every step keeps the inductive invariant. *)
LEMMA Step ==
  ASSUME IndInv, [Next]_vars
  PROVE  IndInv'
<1>1. CASE UNCHANGED vars
  BY <1>1, StutterStep
<1>2. ASSUME NEW p \in Threads, Operation(p) PROVE IndInv'
  <2>1. ASSUME NEW s \in Sites, Create(p, s) \/ TransitionSite(p, s) \/ RetireKey(p, s)
        PROVE  IndInv'
    BY <2>1, CreateStep, TransitionStep, RetireStep
  <2>2. ASSUME NEW s \in Sites, RegisterCall(p, s) \/ AckSpoke(p, s) \/ Activate(p, s)
        PROVE  IndInv'
    BY <2>2, RegisterCallStep, AckSpokeStep, ActivateStep
  <2>3. CASE Recompile(p) \/ RegisterKey(p) \/ Promote(p)
    BY <2>3, RecompileStep, RegisterKeyStep, PromoteStep
  <2>4. ASSUME NEW h \in Hubs, PublishHub(p, h) PROVE IndInv'
    BY <2>4, PublishHubStep
  <2>5. CASE Read(p) \/ PublishSpokes(p) \/ Abandon(p)
    BY <2>5, ReadStep, PublishSpokesStep, AbandonStep
  <2>6. CASE ActivateOwner(p) \/ ActivatePut(p)
    BY <2>6, ActivateOwnerStep, ActivatePutStep
  <2> QED BY <1>2, <2>1, <2>2, <2>3, <2>4, <2>5, <2>6 DEF Operation
<1>3. ASSUME NEW h \in Hubs, AckHub(h) PROVE IndInv'
  BY <1>3, AckHubStep
<1>4. ASSUME NEW c \in Coordinators, Transfer(c) \/ (\E s \in Sites : Fetch(c, s)) PROVE IndInv'
  BY <1>4, TransferStep, FetchStep
<1> QED BY <1>1, <1>2, <1>3, <1>4 DEF Next
-----------------------------------------------------------------------------
(* The topology file gives a state of the inductive invariant. *)
LEMMA Initially ==
  ASSUME Init
  PROVE  IndInv
<1> DEFINE up     == scenario.running
           owners == [s \in Sites |-> IF s \in up THEN [owner |-> "hub1", epoch |-> 1] ELSE NoOwner]
<1>1. /\ rows = [s \in Sites |-> IF s \in up THEN [SeedRow[s] EXCEPT !.life = "ACTIVE"]
                                 ELSE IF s \in Seeds THEN SeedRow[s] ELSE NoRow]
      /\ keys = up /\ leases = up /\ ownership = owners
      /\ hubState = [h \in Hubs |-> IF up = {} THEN NoHubState
                                    ELSE BuildHub([sites |-> Seeds, keys |-> up, owners |-> owners])]
      /\ spokeState = [s \in Sites |-> IF s \in up THEN BuildSpoke(Seeds, s) ELSE NoState]
      /\ verified = {} /\ settled = FALSE
      /\ config = [p \in Processes |-> Seeds]
      /\ job = [p \in Threads |-> Idle]
      /\ held = [c \in Coordinators |-> [site |-> None, owner |-> None, epoch |-> 0]]
      /\ scenario \in Scenarios
  BY DEF Init
<1>2. up \subseteq Seeds /\ Seeds \subseteq Sites /\ SeedRow \in [Seeds -> Rows] /\ \A s \in Seeds : SeedRow[s].life # "NONE"
  BY <1>1, InventoryAssumption
<1>3. owners \in Ownerships /\ Alternating(owners) /\ \A s \in Sites : owners[s].epoch > 0 => s \in up
  <2>1. NoOwner \in [owner : Hubs \cup {None}, epoch : 0 .. MaxEpoch] /\ NoOwner.owner = None /\ NoOwner.epoch = 0
    BY InventoryAssumption DEF NoOwner
  <2>2. LET o == [owner |-> "hub1", epoch |-> 1]
        IN  o \in [owner : Hubs \cup {None}, epoch : 0 .. MaxEpoch] /\ o.owner = "hub1" /\ o.epoch = 1
    BY InventoryAssumption DEF Hubs
  <2>3. OwnerAt(0) = None /\ OwnerAt(1) = "hub1"
    BY DEF OwnerAt
  <2> HIDE DEF up
  <2> QED BY <2>1, <2>2, <2>3 DEF Ownerships, Alternating
<1>4. /\ rows \in [Sites -> Rows] /\ Existing = Seeds
      /\ \A s \in Seeds : /\ rows[s].address = SeedRow[s].address /\ rows[s].octet = SeedRow[s].octet
                          /\ rows[s].index = SeedRow[s].index /\ rows[s].device = SeedRow[s].device
  <2>1. NoRow \in Rows /\ NoRow.life = "NONE"
    BY InventoryAssumption DEF NoRow, Rows, Lifecycle
  <2>2. \A s \in Seeds : LET r == [SeedRow[s] EXCEPT !.life = "ACTIVE"]
                         IN  /\ r \in Rows /\ r.life = "ACTIVE" /\ r.address = SeedRow[s].address
                             /\ r.octet = SeedRow[s].octet /\ r.index = SeedRow[s].index
                             /\ r.device = SeedRow[s].device
    BY <1>2 DEF Rows, Lifecycle
  <2>3. \A s \in Sites : /\ s \in up => rows[s] = [SeedRow[s] EXCEPT !.life = "ACTIVE"]
                         /\ s \in Seeds \ up => rows[s] = SeedRow[s]
                         /\ s \notin Seeds => rows[s] = NoRow
    BY <1>1, <1>2
  <2> HIDE DEF up
  <2>4. \A s \in Sites : rows[s] \in Rows /\ (rows[s].life # "NONE" <=> s \in Seeds)
    <3> SUFFICES ASSUME NEW s \in Sites PROVE rows[s] \in Rows /\ (rows[s].life # "NONE" <=> s \in Seeds)
      OBVIOUS
    <3>1. CASE s \in up
      BY <1>2, <2>2, <2>3, <3>1
    <3>2. CASE s \in Seeds \ up
      BY <1>2, <2>3, <3>2
    <3>3. CASE s \notin Seeds
      BY <2>1, <2>3, <3>3
    <3> QED BY <3>1, <3>2, <3>3
  <2>5. rows \in [Sites -> Rows]
    <3>1. rows = [s \in Sites |-> rows[s]]
      BY <1>1
    <3> QED BY <2>4, <3>1
  <2>6. Existing = Seeds
    BY <1>2, <2>4 DEF Existing
  <2> QED BY <1>2, <2>2, <2>3, <2>5, <2>6
<1>5. Typed
  <2>1. NoHubState \in HubStates /\ NoHubState.peers = {} /\ NoView.owners \in Ownerships
        /\ NoHubState.owners = NoView.owners
    BY IdleFields DEF NoHubState, HubStates, Views
  <2>2. LET b == BuildHub([sites |-> Seeds, keys |-> up, owners |-> owners])
        IN  b \in HubStates /\ b.peers \subseteq b.routes /\ b.owners = owners
    <3> HIDE DEF up, owners
    <3> QED BY <1>2, <1>3 DEF BuildHub, HubStates
  <2>3. hubState \in [Hubs -> HubStates] /\ \A h \in Hubs : hubState[h].peers \subseteq hubState[h].routes
    <3> HIDE DEF up, owners
    <3> QED BY <1>1, <2>1, <2>2
  <2>4. spokeState \in [Sites -> [known : BOOLEAN, routes : SUBSET Sites]]
    BY <1>1, <1>2 DEF BuildSpoke, NoState
  <2>5. [site |-> None, owner |-> None, epoch |-> 0] \in Records
    BY InventoryAssumption DEF Records
  <2>6. job \in [Threads -> Jobs] /\ held \in [Coordinators -> Records]
    BY <1>1, <2>5, IdleFields
  <2>7. config \in [Processes -> SUBSET Sites] /\ keys \in SUBSET Sites /\ leases \in SUBSET Sites
        /\ verified \in SUBSET Hubs
    BY <1>1, <1>2
  <2> QED BY <1>1, <1>3, <1>4, <2>3, <2>4, <2>6, <2>7 DEF Typed
<1>6. NumbersDistinct
  BY <1>4, SeedsDistinct DEF NumbersDistinct, DistinctIn
<1>7. \A p \in Threads : job[p].pc = "idle" /\ ~job[p].fresh /\ Alternating(job[p].view.owners)
  BY <1>1, IdleFields
<1>8. \A c \in Coordinators : held[c].epoch = 0 /\ held[c].owner = None
  BY <1>1
<1>9. ActivationInv
  <2> HIDE DEF up, owners
  <2> QED BY <1>1, <1>3, <1>7, <1>8 DEF ActivationInv
<1>10. EpochInv
  <2>1. \A h \in Hubs : Alternating(hubState[h].owners)
    <3>1. NoHubState.owners = NoView.owners /\ Alternating(NoView.owners)
      BY IdleFields DEF NoHubState
    <3>2. LET b == BuildHub([sites |-> Seeds, keys |-> up, owners |-> owners]) IN b.owners = owners
      BY DEF BuildHub
    <3> HIDE DEF up, owners
    <3> QED BY <1>1, <1>3, <3>1, <3>2
  <2>2. OwnerAt(0) = None
    BY DEF OwnerAt
  <2> HIDE DEF up, owners
  <2> QED BY <1>1, <1>3, <1>7, <1>8, <2>1, <2>2 DEF EpochInv
<1>11. FreshInv
  BY <1>1, <1>7 DEF FreshInv
<1>12. ReadInv
  BY <1>4, <1>7, Names DEF ReadInv, Compiling
<1> QED BY <1>5, <1>6, <1>9, <1>10, <1>11, <1>12 DEF IndInv

(* Every reachable state satisfies the inductive invariant. *)
THEOREM Inductive == Spec => []IndInv
BY Initially, Step, PTL DEF Spec

(* No address, LAN prefix, WireGuard index or device is ever given to two  *)
(* sites, whatever the order of creations, deletions, registrations and    *)
(* compilations, for any topology file that validate_config accepts.       *)
THEOREM InventoryInvariant == Spec => []InventoryInv
<1>1. IndInv => InventoryInv
  <2> SUFFICES ASSUME IndInv PROVE InventoryInv
    OBVIOUS
  <2>1. /\ \A h \in Hubs : hubState[h] \in HubStates
        /\ \A p \in Threads : job[p] \in Jobs /\ job[p].view \in Views
        /\ \A c \in Coordinators : held[c] \in Records
    BY DEF IndInv, Typed, Jobs
  <2>2. TypeOK
    BY <2>1 DEF TypeOK, IndInv, Typed, HubStates, Jobs, Views, Records
  <2> QED BY <2>2 DEF IndInv, InventoryInv
<1> QED BY <1>1, Inductive, PTL

(* One undisturbed compilation repairs what crashes and stale publications *)
(* of either process left behind.                                          *)
THEOREM Repairs == Spec => []CompilationRepairs
<1>1. IndInv => CompilationRepairs
  <2> SUFFICES ASSUME IndInv, settled PROVE CompilationRepairs
    BY DEF CompilationRepairs
  <2> DEFINE gone == {s \in Sites : rows[s].life = "DELETED"}
  <2>1. /\ \A h \in Hubs : hubState[h] = BuildHub(Current)
        /\ \A s \in ActiveSites \cap keys : spokeState[s] = BuildSpoke(Topology, s)
    BY DEF IndInv, FreshInv
  <2>2. /\ BuildHub(Current).peers = Topology \cap keys /\ BuildHub(Current).owners = ownership
        /\ \A s \in Sites : BuildSpoke(Topology, s).routes = Topology \ {s}
    BY DEF BuildHub, BuildSpoke, Current
  <2>3. ActiveSites \subseteq Topology /\ ActiveSites \subseteq Sites /\ ActiveSites \subseteq Configured
    BY TopologySites DEF ActiveSites
  <2>4. ActiveSites # {} => Topology \cap gone = {}
    BY <2>3 DEF Topology, Configured
  <2>5. \A h \in Hubs : /\ ActiveSites \cap keys \subseteq hubState[h].peers
                        /\ hubState[h].peers \subseteq keys
                        /\ hubState[h].owners = ownership
    BY <2>1, <2>2, <2>3
  <2>6. \A s \in ActiveSites \cap keys :
          ActiveSites \ {s} \subseteq spokeState[s].routes /\ spokeState[s].routes \cap gone = {}
    BY <2>1, <2>2, <2>3, <2>4
  <2> QED BY <2>5, <2>6 DEF CompilationRepairs, ActiveSites
<1> QED BY <1>1, Inductive, PTL

(* No two hubs own a prefix in the same epoch, wherever a record of it is  *)
(* kept: with two hubs, the owner is a function of the epoch.              *)
THEOREM OwnersAlwaysAgree == Spec => []OwnersAgree
<1>1. IndInv => OwnersAgree
  <2> SUFFICES ASSUME IndInv, NEW s \in Sites
               PROVE  LET records == {<<ownership[s].epoch, ownership[s].owner>>}
                        \cup {<<held[c].epoch, held[c].owner>> : c \in {d \in Coordinators : held[d].site = s}}
                        \cup {<<hubState[h].owners[s].epoch, hubState[h].owners[s].owner>> : h \in Hubs}
                      IN  \A x, y \in records : x[1] = y[1] => x[2] = y[2]
    BY DEF OwnersAgree
  <2> DEFINE records == {<<ownership[s].epoch, ownership[s].owner>>}
                        \cup {<<held[c].epoch, held[c].owner>> : c \in {d \in Coordinators : held[d].site = s}}
                        \cup {<<hubState[h].owners[s].epoch, hubState[h].owners[s].owner>> : h \in Hubs}
  <2>1. /\ ownership[s].owner = OwnerAt(ownership[s].epoch)
        /\ \A h \in Hubs : hubState[h].owners[s].owner = OwnerAt(hubState[h].owners[s].epoch)
        /\ \A c \in Coordinators : held[c].owner = OwnerAt(held[c].epoch)
    BY DEF IndInv, EpochInv, Alternating
  <2>2. \A x \in records : x[2] = OwnerAt(x[1])
    BY <2>1
  <2> HIDE DEF records
  <2>3. \A x, y \in records : x[1] = y[1] => x[2] = y[2]
    BY <2>2
  <2> QED BY <2>3 DEF records
<1> QED BY <1>1, Inductive, PTL

(* What a compilation is about to write for a hub passes                   *)
(* validate_desired_state, however stale what it has read: the sites may   *)
(* have been deleted, resumed or overtaken by other threads meanwhile.     *)
HubStatesValid == \A p \in Threads : job[p].pc \in Hubs => ValidState(BuildHub(job[p].view))

(* No compilation is ended by a hub's state in which two peers share an    *)
(* address: sites keep their rows and their numbers, deleted or not.       *)
THEOREM HubStatesPass == Spec => []HubStatesValid
<1>1. IndInv => HubStatesValid
  <2> SUFFICES ASSUME IndInv, NEW p \in Threads, job[p].pc \in Hubs
               PROVE  ValidState(BuildHub(job[p].view))
    BY DEF HubStatesValid
  <2>1. job[p].view.sites \subseteq Existing
    BY Names DEF IndInv, ReadInv, Compiling
  <2>2. BuildHub(job[p].view).peers \subseteq Existing
    BY <2>1 DEF BuildHub
  <2> QED BY <2>2 DEF ValidState, DistinctIn, IndInv, NumbersDistinct
<1> QED BY <1>1, Inductive, PTL
=============================================================================
