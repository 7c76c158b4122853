--------------------------- MODULE E2NodeSet_proofs ---------------------------
(***************************************************************************)
(* Proofs about the E2NodeSet controller, for any number of replicas,      *)
(* retries and faults.                                                     *)
(*                                                                         *)
(* NothingOrphaned needs three things the property does not mention: that  *)
(* the finalizer is on the set whenever Reconcile works on its nodes       *)
(* (Guarded), that a ConfigMap without an owner reference is always in the *)
(* informer's cache, where handleDeletion lists it (Visible), and that     *)
(* handleDeletion forgets none it has listed (Purged).                     *)
(***************************************************************************)
EXTENDS E2NodeSetController, FiniteSetTheorems, WellFoundedInduction, TLAPS

Working == {"list", "create", "connect", "shrink", "update", "success",
            "status", "ready", "failed"}
Deleting == {"listDeleted", "purge", "unpurged", "release"}
Purging == {"purge", "unpurged", "release"}

(* The type invariant in three parts that few actions touch together: the   *)
(* copies of the set, the ConfigMaps, and where Reconcile is.               *)
SetPart ==
    /\ api \in Sets /\ cache \in Sets /\ obj \in Sets
    /\ cacheFresh \in BOOLEAN /\ fresh \in BOOLEAN
    /\ cacheFresh => cache = api
    /\ fresh => obj.replicas = api.replicas

(* The informer's copy of a ConfigMap differs from the ConfigMap only while *)
(* a change is on its way.                                                  *)
Delivered ==
    \A i \in Indices :
        (\A k \in DOMAIN pending : pending[k] # i) => cmCache[i] = nodes[i]

MapPart ==
    /\ nodes \in [Indices -> ConfigMaps] /\ cmCache \in [Indices -> ConfigMaps]
    /\ pending \in Seq(Indices) /\ current \subseteq Indices
    /\ \A k, l \in DOMAIN pending : k # l => pending[k] # pending[l]
    /\ Delivered

Places == {"idle", "finalizer", "return"} \cup Working \cup Deleting

(* What Reconcile works on is there: scaleUpE2Nodes has an index to give,   *)
(* the other loops have a node to take.                                     *)
PlacePart ==
    /\ pc \in Places
    /\ beating \in BOOLEAN /\ queued \in BOOLEAN
    /\ listed \subseteq Indices
    /\ errors \in BOOLEAN /\ gaveUp \in BOOLEAN
    /\ faults \in 0..MaxFaults
    /\ pc \in {"create", "connect"} => Cardinality(listed) < obj.replicas
    /\ pc \in {"shrink", "update", "purge"} => listed # {}

TypeInv == SetPart /\ MapPart /\ PlacePart

(* No copy of the set has a newer configuration than the one it is a copy   *)
(* of, and no ConfigMap a newer one than Reconcile writes.                  *)
Configured ==
    /\ cache.config <= api.config
    /\ cacheFresh => cache.config = api.config
    /\ \A i \in Indices : nodes[i].config <= cache.config
    /\ pc # "idle" => /\ obj.config <= cache.config
                      /\ \A i \in Indices : nodes[i].config <= obj.config
    /\ fresh => obj.config = api.config /\ cache.config = api.config

(* A deletion is never taken back, and a set that has its finalizer and is  *)
(* not being deleted is there, also where a cache says so.                  *)
Guarded ==
    /\ cache.deleting => api.deleting
    /\ api.finalizer /\ ~api.deleting => api.exists
    /\ cache.finalizer /\ ~cache.deleting => api.finalizer /\ api.exists
    /\ pc = "idle" => ~fresh
    /\ fresh /\ pc # "return" => api.exists
    /\ pc \in Working => obj.finalizer /\ api.finalizer /\ api.exists
    /\ pc \in Deleting => cache.deleting

Loose == {i \in Indices : nodes[i].state > 0 /\ ~nodes[i].owned}

(* A ConfigMap without an owner was listed before it was updated, and so is *)
(* in the cache.                                                            *)
Visible ==
    /\ \A i \in current : cmCache[i].state > 0 /\ nodes[i].state > 0
    /\ \A i \in Loose : cmCache[i].state > 0

(* What handleDeletion has not deleted and has not reported is still on its *)
(* list, and it comes to the finalizer with an empty list.                  *)
Purged ==
    /\ pc = "listDeleted" => ~errors
    /\ pc \in Purging /\ ~errors /\ ~gaveUp => Loose \subseteq listed
    /\ pc \in {"unpurged", "release"} => listed = {}
    /\ pc = "release" /\ errors => gaveUp

(* NothingOrphaned, and the same for a set that may go at any time.         *)
Owned ==
    /\ ~api.exists \/ (~api.deleting /\ ~api.finalizer)
    /\ ~gaveUp
    => Loose = {}

NodeInv == TypeInv /\ Guarded /\ Visible /\ Purged /\ Owned

-----------------------------------------------------------------------------
(* The operators of the model.                                              *)

(* The three parts imply the model's type invariant.                        *)
LEMMA Parts == TypeInv => TypeOK
<1>1. Places = {"idle", "finalizer", "list", "create", "connect", "shrink",
                "update", "success", "status", "ready",
                "failed", "listDeleted", "purge", "unpurged", "release",
                "return"}
  BY DEF Places, Working, Deleting
<1> QED BY <1>1 DEF TypeInv, TypeOK, SetPart, MapPart, PlacePart

(* A set of naturals that is not empty has a smallest member.               *)
LEMMA MinMember ==
    ASSUME NEW S, S \subseteq Nat, S # {}
    PROVE  Min(S) \in S
<1>1. PICK x \in S : \A y \in S : ~(<<y, x>> \in OpToRel(<, Nat))
  BY NatLessThanWellFounded, WFMin, Zenon
<1>2. \A y \in S : x <= y
  <2> SUFFICES ASSUME NEW y \in S PROVE x <= y
    OBVIOUS
  <2>1. <<y, x>> \notin OpToRel(<, Nat)
    BY <1>1
  <2>2. ~(y < x)
    BY <2>1, Zenon DEF OpToRel
  <2> QED BY <2>2
<1> QED BY <1>2 DEF Min

(* So has one below a bound a largest, the mirror image of a smallest.      *)
LEMMA MaxMember ==
    ASSUME NEW n \in Nat, NEW S, S \subseteq 0..n, S # {}
    PROVE  Max(S) \in S
<1> DEFINE T == {n - x : x \in S}
<1>1. T \subseteq Nat /\ T # {}
  <2>1. \A x \in S : n - x \in Nat
    OBVIOUS
  <2> QED BY <2>1
<1>2. PICK m \in T : \A y \in T : ~(<<y, m>> \in OpToRel(<, Nat))
  <2> HIDE DEF T
  <2> QED BY <1>1, NatLessThanWellFounded, WFMin, Zenon
<1>3. PICK x \in S : m = n - x
  BY <1>2
<1>4. \A y \in S : x >= y
  <2> SUFFICES ASSUME NEW y \in S PROVE x >= y
    OBVIOUS
  <2>1. n - y \in T /\ m \in T
    OBVIOUS
  <2>2. <<n - y, m>> \notin OpToRel(<, Nat)
    BY <1>2, <2>1
  <2>3. n - y \in Nat /\ m \in Nat
    BY <1>1, <2>1
  <2>4. ~(n - y < m)
    <3> HIDE DEF T
    <3> QED BY <2>2, <2>3, Zenon DEF OpToRel
  <2> QED BY <2>4, <1>3
<1> QED BY <1>4 DEF Max

(* The indices of the set are finitely many.                                *)
LEMMA IndicesFinite ==
    ASSUME NEW S, S \subseteq Indices
    PROVE  /\ IsFiniteSet(S) /\ Cardinality(S) \in Nat
           /\ Cardinality(S) <= MaxReplicas
           /\ S # {} <=> Cardinality(S) > 0
           /\ Cardinality(S) < MaxReplicas => Indices \ S # {}
<1>1. IsFiniteSet(Indices) /\ Cardinality(Indices) = MaxReplicas
  BY FS_Interval, BoundsAssumption DEF Indices
<1>2. IsFiniteSet(S) /\ Cardinality(S) <= MaxReplicas
  BY <1>1, FS_Subset
<1>3. Cardinality(S) \in Nat
  BY <1>2, FS_CardinalityType
<1>4. S # {} <=> Cardinality(S) > 0
  BY <1>2, <1>3, FS_EmptySet
<1>5. ASSUME Cardinality(S) < MaxReplicas PROVE Indices \ S # {}
  <2>1. S # Indices
    BY <1>1, <1>5, BoundsAssumption
  <2> QED BY <2>1
<1> QED BY <1>2, <1>3, <1>4, <1>5

(* Where Reconcile takes an index it is one of the set's.                   *)
LEMMA Chosen ==
    ASSUME TypeInv
    PROVE  /\ pc \in {"create", "connect"} => nextIndex \in Indices
           /\ pc \in {"shrink", "update", "purge"} =>
                  Min(listed) \in listed /\ Max(listed) \in listed
<1>1. listed \subseteq Indices /\ Indices \subseteq Nat
  BY BoundsAssumption DEF TypeInv, PlacePart, Indices
<1>2. ASSUME pc \in {"create", "connect"} PROVE nextIndex \in Indices
  <2>1. obj.replicas \in Nat /\ obj.replicas <= MaxReplicas
    BY BoundsAssumption DEF TypeInv, SetPart, Sets
  <2>2. Cardinality(listed) < MaxReplicas
    <3>1. Cardinality(listed) < obj.replicas
      BY <1>2 DEF TypeInv, PlacePart
    <3>2. Cardinality(listed) \in Nat
      BY <1>1, IndicesFinite
    <3> QED BY <2>1, <3>1, <3>2, BoundsAssumption
  <2>3. Indices \ listed # {} /\ Indices \ listed \subseteq Nat
    BY <1>1, <2>2, IndicesFinite
  <2>4. Min(Indices \ listed) \in Indices \ listed
    BY <2>3, MinMember
  <2> QED BY <2>4 DEF nextIndex
<1>3. ASSUME pc \in {"shrink", "update", "purge"}
      PROVE  Min(listed) \in listed /\ Max(listed) \in listed
  <2>1. listed # {} /\ listed \subseteq Nat
    BY <1>1, <1>3 DEF TypeInv, PlacePart
  <2>2. listed \subseteq 0..MaxReplicas
    BY <1>1, BoundsAssumption DEF Indices
  <2> QED BY <2>1, <2>2, MinMember, MaxMember, BoundsAssumption
<1> QED BY <1>2, <1>3

(* A write of the set, as far as the invariants tell: it is refused, or it  *)
(* was based on the current version; it touches neither the spec nor the    *)
(* deletion.                                                                *)
Written(o) ==
    /\ api' \in Sets /\ obj' \in Sets
    /\ cache' = cache /\ fresh' = fresh
    /\ cacheFresh' \in BOOLEAN /\ (cacheFresh' => cacheFresh /\ api' = api)
    /\ api'.exists = api.exists /\ api'.deleting = api.deleting
    /\ api'.replicas = api.replicas /\ api'.config = api.config
    /\ api'.finalizer # api.finalizer => fresh /\ api'.finalizer = o.finalizer
    /\ obj' = o \/ (fresh /\ obj' = api')

(* Every form of write in the code is one of these.                         *)
LEMMA WriteOutcome ==
    ASSUME TypeOK, NEW o \in Sets, NEW r \in BOOLEAN
    PROVE  /\ Refused(o) => Written(o)
           /\ fresh /\ Accepted([api EXCEPT !.ready = r]) => Written(o)
           /\ fresh /\ Accepted(WithMeta(o)) => Written(o)
           /\ Saved(o, r) => Written(o)
           /\ Save(o, r) => Written(o)
           /\ SaveMeta(o) => Written(o)
<1>0. api \in Sets /\ cacheFresh \in BOOLEAN /\ fresh \in BOOLEAN
  BY DEF TypeOK
<1>1. Refused(o) => Written(o)
  BY <1>0 DEF Refused, Written, server
<1> DEFINE New(n) == /\ n \in Sets /\ n.exists = api.exists
                     /\ n.deleting = api.deleting
                     /\ n.replicas = api.replicas /\ n.config = api.config
                     /\ n.finalizer \in {api.finalizer, o.finalizer}
<1>2. ASSUME NEW n, New(n), fresh, Accepted(n) PROVE Written(o)
  BY <1>0, <1>2 DEF Accepted, Written
<1>3. New(WithMeta(o)) /\ New([api EXCEPT !.ready = r])
  BY <1>0 DEF WithMeta, Sets
<1>4. New([WithMeta(o) EXCEPT !.ready = r])
  BY <1>0 DEF WithMeta, Sets
<1> HIDE DEF New
<1>5. Saved(o, r) => Written(o)
  BY <1>1, <1>2, <1>4 DEF Saved
<1> QED BY <1>1, <1>2, <1>3, <1>5 DEF Save, SaveMeta

(* A change of a ConfigMap: it is the only one, and the informer's queue    *)
(* holds it once.                                                           *)
LEMMA ChangeOutcome ==
    ASSUME TypeOK, NEW i \in Indices, NEW cm \in ConfigMaps, Change(i, cm)
    PROVE  /\ nodes' \in [Indices -> ConfigMaps] /\ nodes'[i] = cm
           /\ \A j \in Indices : j # i => nodes'[j] = nodes[j]
           /\ pending' \in Seq(Indices)
           /\ \A k, l \in DOMAIN pending' : k # l => pending'[k] # pending'[l]
           /\ \E k \in DOMAIN pending' : pending'[k] = i
           /\ \A k \in DOMAIN pending :
                 \E l \in DOMAIN pending' : pending'[l] = pending[k]
           /\ current' = current \ {i} /\ cmCache' = cmCache
           /\ current' \subseteq Indices
<1> USE DEF TypeOK, Change
<1>1. CASE \E k \in DOMAIN pending : pending[k] = i
  BY <1>1
<1>2. CASE ~\E k \in DOMAIN pending : pending[k] = i
  <2>1. pending' = Append(pending, i)
    BY <1>2
  <2>2. /\ pending' \in Seq(Indices) /\ Len(pending) \in Nat
        /\ Len(pending') = Len(pending) + 1
        /\ DOMAIN pending = 1..Len(pending)
        /\ DOMAIN pending' = 1..Len(pending) + 1
        /\ pending'[Len(pending) + 1] = i
        /\ \A k \in 1..Len(pending) : pending'[k] = pending[k]
    BY <2>1
  <2>3. \A k, l \in DOMAIN pending' : k # l => pending'[k] # pending'[l]
    BY <2>2, <1>2
  <2>4. \E k \in DOMAIN pending' : pending'[k] = i
    BY <2>2
  <2>5. \A k \in DOMAIN pending :
           \E l \in DOMAIN pending' : pending'[l] = pending[k]
    BY <2>2
  <2> QED BY <2>2, <2>3, <2>4, <2>5
<1> QED BY <1>1, <1>2

(* The informer delivers the first change of its queue.                     *)
LEMMA EventOutcome ==
    ASSUME TypeOK, ConfigMapEvent
    PROVE  \E i \in Indices :
              /\ cmCache' = [cmCache EXCEPT ![i] = nodes[i]]
              /\ pending' \in Seq(Indices)
              /\ \A k, l \in DOMAIN pending' :
                    k # l => pending'[k] # pending'[l]
              /\ \A k \in DOMAIN pending :
                    \/ pending[k] = i
                    \/ \E l \in DOMAIN pending' : pending'[l] = pending[k]
<1> USE DEF TypeOK, ConfigMapEvent
<1>1. /\ Len(pending) \in Nat \ {0} /\ Head(pending) = pending[1]
      /\ Len(pending') = Len(pending) - 1
      /\ DOMAIN pending = 1..Len(pending)
      /\ DOMAIN pending' = 1..Len(pending) - 1
      /\ \A k \in 1..Len(pending) - 1 : pending'[k] = pending[k + 1]
  OBVIOUS
<1>2. Head(pending) \in Indices /\ pending' \in Seq(Indices)
  OBVIOUS
<1>3. \A k, l \in DOMAIN pending' : k # l => pending'[k] # pending'[l]
  BY <1>1
<1>4. ASSUME NEW k \in DOMAIN pending
      PROVE  \/ pending[k] = Head(pending)
             \/ \E l \in DOMAIN pending' : pending'[l] = pending[k]
  <2>1. CASE k = 1
    BY <1>1, <2>1
  <2>2. CASE k # 1
    <3>1. k - 1 \in DOMAIN pending' /\ pending'[k - 1] = pending[k]
      BY <1>1, <2>2
    <3> QED BY <3>1
  <2> QED BY <2>1, <2>2
<1> QED BY <1>2, <1>3, <1>4

-----------------------------------------------------------------------------
(* The type invariant.                                                      *)

(* A new E2NodeSet has no nodes, and Reconcile has not begun.               *)
LEMMA InitType == Init => TypeInv
<1> SUFFICES ASSUME Init PROVE TypeInv
  OBVIOUS
<1>1. \A r \in 0..MaxReplicas : NewSet(r) \in Sets
  BY BoundsAssumption DEF NewSet, Sets
<1>2. api \in Sets /\ cache \in Sets /\ obj \in Sets
  BY <1>1, BoundsAssumption DEF Init
<1>3. Absent \in ConfigMaps
  BY DEF Absent, ConfigMaps
<1>4. nodes \in [Indices -> ConfigMaps] /\ cmCache \in [Indices -> ConfigMaps]
  BY <1>3 DEF Init
<1>5. pending \in Seq(Indices) /\ DOMAIN pending = {}
  BY DEF Init
<1>6. faults \in 0..MaxFaults
  BY BoundsAssumption DEF Init
<1>8. /\ cacheFresh \in BOOLEAN /\ fresh \in BOOLEAN
      /\ beating \in BOOLEAN /\ queued \in BOOLEAN /\ pc = "idle"
      /\ listed \subseteq Indices /\ current \subseteq Indices
      /\ errors \in BOOLEAN /\ gaveUp \in BOOLEAN
  BY DEF Init
<1>7. cache = api /\ ~fresh
  BY DEF Init
<1>9. Delivered
  BY DEF Init, Delivered
<1> QED BY <1>2, <1>4, <1>5, <1>6, <1>7, <1>8, <1>9
        DEF TypeInv, SetPart, MapPart, PlacePart, Places

(* A ConfigMap that Reconcile or a heartbeat writes is one.                 *)
LEMMA MapTypes ==
    ASSUME TypeOK
    PROVE  /\ Absent \in ConfigMaps
           /\ [state |-> 1, config |-> obj.config, owned |-> TRUE]
                 \in ConfigMaps
           /\ \A cm \in ConfigMaps :
                 /\ Updated(cm) \in ConfigMaps
                 /\ [cm EXCEPT !.state = 3] \in ConfigMaps
                 /\ Beaten(cm) \in ConfigMaps
<1>1. obj.config \in 0..1
  BY DEF TypeOK, Sets
<1> QED BY <1>1 DEF Absent, Updated, Beaten, ConfigMaps

(* The objects Reconcile writes are sets with the replicas it has read.     *)
LEMMA ObjectTypes ==
    ASSUME TypeOK
    PROVE  /\ \A b \in BOOLEAN : [obj EXCEPT !.finalizer = b] \in Sets
           /\ [obj EXCEPT !.operations = 0] \in Sets
           /\ obj.operations < DefaultMaxRetries => OneMore \in Sets
           /\ obj.cleanup < DefaultMaxRetries =>
                 [obj EXCEPT !.cleanup = @ + 1] \in Sets
<1>1. obj \in Sets
  BY DEF TypeOK
<1>2. /\ 0 \in 0..DefaultMaxRetries
      /\ \A n \in 0..DefaultMaxRetries :
            n < DefaultMaxRetries => n + 1 \in 0..DefaultMaxRetries
  BY BoundsAssumption
<1> QED BY <1>1, <1>2 DEF Sets, OneMore

(* The parts and the steps that leave them alone or write in one way.       *)
LEMMA PartFrames ==
    ASSUME TypeInv
    PROVE  /\ UNCHANGED <<server, obj, fresh>> => SetPart'
           /\ UNCHANGED maps => MapPart'
           /\ \A o \in Sets : o.replicas = obj.replicas /\ Written(o) =>
                 SetPart' /\ obj'.replicas = obj.replicas
           /\ \A i \in Indices, cm \in ConfigMaps : Change(i, cm) => MapPart'
           /\ Fault => faults' \in 0..MaxFaults
<1>0. SetPart /\ MapPart /\ PlacePart /\ TypeOK
  BY Parts DEF TypeInv
<1>1. UNCHANGED <<server, obj, fresh>> => SetPart'
  BY <1>0 DEF SetPart, server
<1>2. UNCHANGED maps => MapPart'
  BY <1>0 DEF MapPart, Delivered, maps
<1>3. ASSUME NEW o \in Sets, o.replicas = obj.replicas, Written(o)
      PROVE  SetPart' /\ obj'.replicas = obj.replicas
  BY <1>0, <1>3 DEF SetPart, Written
<1>4. ASSUME NEW i \in Indices, NEW cm \in ConfigMaps, Change(i, cm)
      PROVE  MapPart'
  <2>1. cmCache' = cmCache /\ cmCache \in [Indices -> ConfigMaps]
    BY <1>0, <1>4, ChangeOutcome DEF MapPart
  <2>2. ASSUME NEW j \in Indices, \A k \in DOMAIN pending' : pending'[k] # j
        PROVE  cmCache'[j] = nodes'[j]
    <3>1. j # i /\ \A k \in DOMAIN pending : pending[k] # j
      BY <1>0, <1>4, <2>2, ChangeOutcome
    <3>2. nodes'[j] = nodes[j]
      BY <1>0, <1>4, <3>1, ChangeOutcome
    <3> QED BY <1>0, <2>1, <3>1, <3>2 DEF MapPart, Delivered
  <2>3. Delivered'
    BY <2>2 DEF Delivered
  <2> QED BY <1>0, <1>4, <2>1, <2>3, ChangeOutcome DEF MapPart
<1>5. Fault => faults' \in 0..MaxFaults
  BY <1>0, BoundsAssumption DEF Fault, PlacePart
<1> QED BY <1>1, <1>2, <1>3, <1>4, <1>5

(* The object a failed operation writes is the same set.                    *)
LEMMA Rewritten ==
    ASSUME TypeInv
    PROVE  /\ \A b \in BOOLEAN :
                 SaveMeta([obj EXCEPT !.finalizer = b]) =>
                     Written([obj EXCEPT !.finalizer = b])
           /\ SaveMeta([obj EXCEPT !.operations = 0]) =>
                  Written([obj EXCEPT !.operations = 0])
           /\ obj.operations < DefaultMaxRetries /\ Failed => Written(OneMore)
           /\ obj.operations < DefaultMaxRetries /\ Conflicted =>
                  Written(OneMore)
           /\ obj.cleanup < DefaultMaxRetries
              /\ Save([obj EXCEPT !.cleanup = @ + 1], FALSE) =>
                     Written([obj EXCEPT !.cleanup = @ + 1])
           /\ \A r \in BOOLEAN : Save(obj, r) => Written(obj)
           /\ Refused(obj) => Written(obj)
           /\ \A r \in BOOLEAN :
                 fresh /\ Accepted([api EXCEPT !.ready = r]) => Written(obj)
           /\ OneMore.replicas = obj.replicas
           /\ OneMore.finalizer = obj.finalizer
           /\ OneMore.config = obj.config
<1>1. TypeOK /\ obj \in Sets
  BY Parts DEF TypeInv, SetPart
<1>2. ASSUME obj.operations < DefaultMaxRetries
      PROVE  /\ Failed => Written(OneMore)
             /\ Conflicted => Written(OneMore)
  BY <1>1, <1>2, ObjectTypes, WriteOutcome DEF Failed, Conflicted
<1>3. \A b \in BOOLEAN :
         SaveMeta([obj EXCEPT !.finalizer = b]) =>
             Written([obj EXCEPT !.finalizer = b])
  BY <1>1, ObjectTypes, WriteOutcome
<1>4. SaveMeta([obj EXCEPT !.operations = 0]) =>
          Written([obj EXCEPT !.operations = 0])
  BY <1>1, ObjectTypes, WriteOutcome
<1>5. obj.cleanup < DefaultMaxRetries
      /\ Save([obj EXCEPT !.cleanup = @ + 1], FALSE) =>
             Written([obj EXCEPT !.cleanup = @ + 1])
  BY <1>1, ObjectTypes, WriteOutcome
<1>6. /\ \A r \in BOOLEAN : Save(obj, r) => Written(obj)
      /\ Refused(obj) => Written(obj)
      /\ \A r \in BOOLEAN :
            fresh /\ Accepted([api EXCEPT !.ready = r]) => Written(obj)
  BY <1>1, WriteOutcome
<1>7. /\ OneMore.replicas = obj.replicas /\ OneMore.config = obj.config
      /\ OneMore.finalizer = obj.finalizer
  BY <1>1 DEF OneMore, Sets
<1> QED BY <1>2, <1>3, <1>4, <1>5, <1>6, <1>7

(* Reconcile ends with a write of the set it has read.                      *)
LEMMA EndWrites ==
    ASSUME TypeInv, ClearRetries \/ SetReady \/ ReturnError
    PROVE  \E o \in Sets : /\ o.replicas = obj.replicas
                           /\ o.config = obj.config
                           /\ o.finalizer = obj.finalizer
                           /\ Written(o)
<1>1. TypeOK /\ obj \in Sets
  BY Parts DEF TypeInv, SetPart
<1> DEFINE Same(o) == /\ o \in Sets /\ o.replicas = obj.replicas
                      /\ o.config = obj.config
                      /\ o.finalizer = obj.finalizer
           cleared == [obj EXCEPT !.operations = 0, !.provisioning = 0]
           counted == [obj EXCEPT !.provisioning = @ + 1]
<1>2. Same(obj)
  BY <1>1
<1>3. Same(cleared)
  <2>1. Same([obj EXCEPT !.operations = 0])
    BY <1>1, ObjectTypes DEF Sets
  <2>2. ASSUME NEW x \in Sets, x = [obj EXCEPT !.operations = 0]
        PROVE  Same([x EXCEPT !.provisioning = 0])
    BY <1>1, <2>1, <2>2, BoundsAssumption DEF Sets
  <2>3. cleared = [[obj EXCEPT !.operations = 0] EXCEPT !.provisioning = 0]
    BY <1>1 DEF Sets
  <2> QED BY <2>1, <2>2, <2>3
<1>4. obj.provisioning < DefaultMaxRetries => Same(counted)
  BY <1>1, BoundsAssumption DEF Sets
<1> HIDE DEF cleared, counted
<1>5. ASSUME NEW o, Same(o)
      PROVE  /\ Refused(o) => Written(o)
             /\ SaveMeta(o) => Written(o)
             /\ \A b \in BOOLEAN : /\ Save(o, b) => Written(o)
                                   /\ fresh /\ Accepted([api EXCEPT !.ready = b])
                                         => Written(o)
  BY <1>1, <1>5, WriteOutcome
<1>6. \A b \in BOOLEAN : SaveReady(b) => Written(obj)
  BY <1>2, <1>5 DEF SaveReady
<1>7. CASE ClearRetries
  BY <1>3, <1>5, <1>7 DEF ClearRetries, cleared
<1>8. CASE SetReady
  BY <1>2, <1>6, <1>8 DEF SetReady
<1>9. CASE ReturnError
  <2>1. CASE /\ obj.provisioning < DefaultMaxRetries
             /\ Save(counted, FALSE)
    BY <1>4, <1>5, <2>1
  <2>2. CASE SaveReady(FALSE)
    BY <1>2, <1>6, <2>2
  <2> QED BY <1>9, <2>1, <2>2 DEF ReturnError, ReportFailure, counted
<1> QED BY <1>7, <1>8, <1>9

(* The informers, the user and the process keep the types.                  *)
LEMMA OutsideType ==
    ASSUME TypeInv, SetEvent \/ ConfigMapEvent \/ UserEdit \/ UserDelete \/ Crash
    PROVE  TypeInv'
<1>0. SetPart /\ MapPart /\ PlacePart /\ TypeOK
  BY Parts DEF TypeInv
<1>1. CASE SetEvent
  <2>1. SetPart'
    BY <1>0, <1>1 DEF SetEvent, SetPart, local
  <2>2. MapPart' /\ PlacePart'
    BY <1>0, <1>1, PartFrames DEF SetEvent, PlacePart, local
  <2> QED BY <2>1, <2>2 DEF TypeInv
<1>2. CASE ConfigMapEvent
  <2>1. SetPart'
    BY <1>0, <1>2, PartFrames DEF ConfigMapEvent, local, server
  <2>2. cmCache[Head(pending)] \in ConfigMaps /\ nodes[Head(pending)] \in ConfigMaps
    BY <1>0, <1>2 DEF ConfigMapEvent, MapPart
  <2>3. queued' \in BOOLEAN
    BY <1>0, <1>2, <2>2 DEF ConfigMapEvent, PlacePart, ConfigMaps
  <2>4. PlacePart'
    BY <1>0, <1>2, <2>3 DEF ConfigMapEvent, PlacePart, local
  <2>5. MapPart'
    <3>1. nodes' = nodes /\ current' = current
      BY <1>2 DEF ConfigMapEvent
    <3>2. cmCache' \in [Indices -> ConfigMaps]
      BY <1>0, <1>2, EventOutcome DEF MapPart
    <3>3. PICK i \in Indices :
             /\ cmCache' = [cmCache EXCEPT ![i] = nodes[i]]
             /\ \A k \in DOMAIN pending :
                   \/ pending[k] = i
                   \/ \E l \in DOMAIN pending' : pending'[l] = pending[k]
      BY <1>0, <1>2, EventOutcome
    <3>4. ASSUME NEW j \in Indices,
                 \A k \in DOMAIN pending' : pending'[k] # j
          PROVE  cmCache'[j] = nodes'[j]
      <4>1. CASE j = i
        BY <1>0, <3>1, <3>3, <4>1 DEF MapPart
      <4>2. CASE j # i
        <5>1. \A k \in DOMAIN pending : pending[k] # j
          BY <3>3, <3>4, <4>2
        <5> QED BY <1>0, <3>1, <3>3, <4>2, <5>1 DEF MapPart, Delivered
      <4> QED BY <4>1, <4>2
    <3>5. Delivered'
      BY <3>4 DEF Delivered
    <3> QED BY <1>0, <1>2, <3>1, <3>2, <3>5, EventOutcome DEF MapPart
  <2> QED BY <2>1, <2>4, <2>5 DEF TypeInv
<1>3. CASE UserEdit
  <2>1. api' \in Sets
    BY <1>0, <1>3 DEF UserEdit, SetPart, Sets
  <2>2. SetPart'
    BY <1>0, <1>3, <2>1 DEF UserEdit, SetPart
  <2>3. MapPart' /\ PlacePart'
    BY <1>0, <1>3, PartFrames DEF UserEdit, PlacePart
  <2> QED BY <2>2, <2>3 DEF TypeInv
<1>4. CASE UserDelete
  <2>1. api' \in Sets
    BY <1>0, <1>4 DEF UserDelete, SetPart, Sets
  <2>2. SetPart'
    BY <1>0, <1>4, <2>1 DEF UserDelete, SetPart
  <2>3. MapPart' /\ PlacePart'
    BY <1>0, <1>4, PartFrames DEF UserDelete, PlacePart
  <2> QED BY <2>2, <2>3 DEF TypeInv
<1>5. CASE Crash
  <2>1. SetPart'
    <3>1. NewSet(0) \in Sets
      BY BoundsAssumption DEF NewSet, Sets
    <3> QED BY <1>0, <1>5, <3>1 DEF Crash, SetPart
  <2>2. MapPart'
    BY <1>0, <1>5 DEF Crash, MapPart, Delivered
  <2>3. PlacePart'
    BY <1>0, <1>5, PartFrames DEF Crash, PlacePart, Places
  <2> QED BY <2>1, <2>2, <2>3 DEF TypeInv
<1> QED BY <1>1, <1>2, <1>3, <1>4, <1>5

(* The heartbeats keep the types.                                           *)
LEMMA BeatType ==
    ASSUME TypeInv, Heartbeat \/ HeartbeatStatus
    PROVE  TypeInv'
<1>0. SetPart /\ MapPart /\ PlacePart /\ TypeOK
  BY Parts DEF TypeInv
<1>1. CASE Heartbeat
  <2>1. PICK i \in Present(cmCache) :
           Change(i, Beaten(cmCache[i]))
    BY <1>1 DEF Heartbeat
  <2>2. i \in Indices /\ cmCache[i] \in ConfigMaps
    BY <1>0 DEF Present, MapPart
  <2>3. MapPart'
    BY <1>0, <2>1, <2>2, MapTypes, PartFrames
  <2>4. SetPart' /\ PlacePart'
    BY <1>0, <1>1, PartFrames DEF Heartbeat, PlacePart, local
  <2> QED BY <2>3, <2>4 DEF TypeInv
<1>2. CASE HeartbeatStatus
  <2>1. SetPart'
    BY <1>0, <1>2 DEF HeartbeatStatus, NewStatus, SetPart
  <2>2. MapPart' /\ PlacePart'
    BY <1>0, <1>2, PartFrames DEF HeartbeatStatus, PlacePart
  <2> QED BY <2>1, <2>2 DEF TypeInv
<1> QED BY <1>1, <1>2

(* The steps of Reconcile that write neither the set nor a ConfigMap.       *)
LEMMA QuietType ==
    ASSUME TypeInv, Read \/ ListNodes \/ Exhausted \/ ConnectFails \/ Return
                    \/ ListForDeletion \/ UpdateStatus
    PROVE  TypeInv'
<1>0. SetPart /\ MapPart /\ PlacePart /\ TypeOK
  BY Parts DEF TypeInv
<1>1. CASE Read
  <2>1. SetPart'
    BY <1>0, <1>1 DEF Read, SetPart, server
  <2>2. pc' \in {"return", "listDeleted", "finalizer", "list"}
    BY <1>1 DEF Read
  <2>3. MapPart' /\ PlacePart'
    BY <1>0, <1>1, <2>2, PartFrames
       DEF Read, PlacePart, Places, Working, Deleting
  <2> QED BY <2>1, <2>3 DEF TypeInv
<1>2. CASE ListNodes
  <2>1. Present(cmCache) \subseteq Indices
    BY DEF Present
  <2>2. SetPart'
    BY <1>0, <1>2, PartFrames DEF ListNodes
  <2>3. current' \subseteq Indices
    BY <1>0, <1>2, <2>1 DEF ListNodes, MapPart
  <2>4. MapPart'
    BY <1>0, <1>2, <2>3 DEF ListNodes, MapPart, Delivered
  <2>5. obj' = obj /\ obj.replicas \in Nat
    BY <1>0, <1>2, BoundsAssumption DEF ListNodes, SetPart, Sets
  <2>6. Cardinality(Present(cmCache)) > obj.replicas => Present(cmCache) # {}
    BY <2>1, <2>5, IndicesFinite
  <2>7. PlacePart'
    <3>1. /\ pc' \in {"create", "shrink", "success", "update", "failed"}
          /\ listed' \subseteq Indices /\ faults' \in 0..MaxFaults
          /\ beating' = beating /\ queued' = queued /\ errors' = errors
          /\ gaveUp' = gaveUp
      BY <1>0, <1>2, <2>1, PartFrames DEF ListNodes, PlacePart
    <3>2. pc' = "create" => Cardinality(listed') < obj'.replicas
      BY <1>2, <2>5 DEF ListNodes
    <3>3. pc' \in {"shrink", "update"} => listed' # {}
      BY <1>2, <2>6 DEF ListNodes
    <3> QED BY <1>0, <3>1, <3>2, <3>3
            DEF PlacePart, Places, Working, Deleting
  <2> QED BY <2>2, <2>4, <2>7 DEF TypeInv
<1>3. CASE Exhausted \/ ConnectFails
  <2>1. SetPart' /\ MapPart'
    BY <1>0, <1>3, PartFrames DEF Exhausted, ConnectFails, local
  <2>2. PlacePart'
    BY <1>0, <1>3, PartFrames
       DEF Exhausted, ConnectFails, local, PlacePart, Places, Working
  <2> QED BY <2>1, <2>2 DEF TypeInv
<1>4. CASE Return
  <2>1. NewSet(0) \in Sets
    BY BoundsAssumption DEF NewSet, Sets
  <2>2. SetPart' /\ MapPart'
    BY <1>0, <1>4, <2>1 DEF Return, SetPart, MapPart, Delivered, server
  <2>3. PlacePart'
    BY <1>0, <1>4 DEF Return, PlacePart, Places
  <2> QED BY <2>2, <2>3 DEF TypeInv
<1>5. CASE ListForDeletion
  <2>1. SetPart' /\ MapPart'
    BY <1>0, <1>5, PartFrames DEF ListForDeletion
  <2>2. listed' \subseteq Indices /\ gaveUp' \in BOOLEAN
        /\ faults' \in 0..MaxFaults
    BY <1>0, <1>5, PartFrames DEF ListForDeletion, Present, PlacePart
  <2>3. PlacePart'
    BY <1>0, <1>5, <2>2
       DEF ListForDeletion, purgeStep, PlacePart, Places, Deleting
  <2> QED BY <2>1, <2>3 DEF TypeInv
<1>6. CASE UpdateStatus
  <2>1. SetPart'
    <3>1. CASE NewStatus
      BY <1>0, <1>6, <3>1 DEF UpdateStatus, NewStatus, SetPart
    <3>2. CASE UNCHANGED <<server, fresh>>
      BY <1>0, <1>6, <3>2, PartFrames DEF UpdateStatus
    <3> QED BY <1>6, <3>1, <3>2 DEF UpdateStatus
  <2>2. MapPart' /\ PlacePart'
    BY <1>0, <1>6, PartFrames
       DEF UpdateStatus, PlacePart, Places, Working
  <2> QED BY <2>1, <2>2 DEF TypeInv
<1> QED BY <1>1, <1>2, <1>3, <1>4, <1>5, <1>6

(* The steps of Reconcile that write the set and no ConfigMap.              *)
LEMMA WriteType ==
    ASSUME TypeInv, AddFinalizer \/ CreateNodeFails \/ DeleteNodeFails
                    \/ ClearRetries \/ SetReady \/ ReturnError
                    \/ CleanupFailed \/ Release
    PROVE  TypeInv'
<1>0. SetPart /\ MapPart /\ PlacePart /\ TypeOK /\ obj \in Sets
  BY Parts DEF TypeInv, SetPart
<1> DEFINE Same(o) == o \in Sets /\ o.replicas = obj.replicas
<1>1. /\ Same(obj) /\ Same([obj EXCEPT !.finalizer = TRUE])
      /\ Same([obj EXCEPT !.operations = 0])
      /\ obj.operations < DefaultMaxRetries => Same(OneMore)
      /\ obj.cleanup < DefaultMaxRetries => Same([obj EXCEPT !.cleanup = @ + 1])
  BY <1>0, ObjectTypes, Rewritten DEF Sets
<1>2. \A o : Same(o) /\ Written(o) => SetPart'
  BY PartFrames
<1> HIDE DEF Same
<1>3. CASE AddFinalizer
  <2>1. SetPart'
    BY <1>1, <1>2, <1>3, Rewritten DEF AddFinalizer
  <2>2. MapPart' /\ PlacePart'
    BY <1>0, <1>3, PartFrames
       DEF AddFinalizer, SaveMeta, PlacePart, Places
  <2> QED BY <2>1, <2>2 DEF TypeInv
<1>4. CASE CreateNodeFails
  <2>1. SetPart'
    BY <1>1, <1>2, <1>4, Rewritten DEF CreateNodeFails
  <2>2. faults' \in 0..MaxFaults /\ pc' = "failed"
    BY <1>0, <1>4, PartFrames
       DEF CreateNodeFails, Failed, Conflicted, Save, PlacePart
  <2>3. MapPart' /\ PlacePart'
    BY <1>0, <1>4, <2>2, PartFrames
       DEF CreateNodeFails, PlacePart, Places, Working
  <2> QED BY <2>1, <2>3 DEF TypeInv
<1>5. CASE DeleteNodeFails
  <2>1. SetPart'
    BY <1>1, <1>2, <1>5, Rewritten, PartFrames DEF DeleteNodeFails
  <2>2. faults' \in 0..MaxFaults /\ pc' = "failed"
    BY <1>0, <1>5, PartFrames DEF DeleteNodeFails, Failed, PlacePart
  <2>3. MapPart' /\ PlacePart'
    BY <1>0, <1>5, <2>2, PartFrames
       DEF DeleteNodeFails, PlacePart, Places, Working
  <2> QED BY <2>1, <2>3 DEF TypeInv
<1>6. CASE ClearRetries
  <2>1. SetPart'
    BY <1>6, EndWrites, PartFrames
  <2>2. MapPart' /\ PlacePart'
    BY <1>0, <1>6, PartFrames
       DEF ClearRetries, SaveMeta, PlacePart, Places, Working
  <2> QED BY <2>1, <2>2 DEF TypeInv
<1>7. CASE SetReady
  <2>1. SetPart'
    BY <1>7, EndWrites, PartFrames
  <2>2. MapPart' /\ PlacePart'
    BY <1>0, <1>7, PartFrames 
       DEF SetReady, SaveReady, PlacePart, Places
  <2> QED BY <2>1, <2>2 DEF TypeInv
<1>8. CASE ReturnError
  <2>1. SetPart'
    BY <1>8, EndWrites, PartFrames
  <2>2. MapPart' /\ PlacePart'
    BY <1>0, <1>8, PartFrames 
       DEF ReturnError, ReportFailure, Save, SaveReady, PlacePart, Places
  <2> QED BY <2>1, <2>2 DEF TypeInv
<1>9. CASE CleanupFailed
  <2>1. SetPart'
    BY <1>1, <1>2, <1>9, Rewritten DEF CleanupFailed
  <2>2. MapPart'
    BY <1>9, PartFrames DEF CleanupFailed
  <2>3. /\ faults' \in 0..MaxFaults /\ pc' \in {"return", "release"}
        /\ queued' \in BOOLEAN /\ gaveUp' \in BOOLEAN
    BY <1>0, <1>9, PartFrames DEF CleanupFailed, Save, PlacePart
  <2>4. PlacePart'
    BY <1>0, <1>9, <2>3 DEF CleanupFailed, PlacePart, Places, Deleting
  <2> QED BY <2>1, <2>2, <2>4 DEF TypeInv
<1>10. CASE Release
  <2>1. SetPart'
    <3>1. CASE Refused(obj)
      BY <1>1, <1>2, <3>1, Rewritten
    <3> DEFINE gone == [WithMeta(obj) EXCEPT !.finalizer = FALSE,
                                             !.exists = FALSE, !.cleanup = 0]
    <3>2. CASE fresh /\ Accepted(gone)
      <4>1. gone \in Sets
        <5>1. WithMeta(obj) \in Sets
          BY <1>0 DEF WithMeta, Sets, SetPart
        <5>2. 0 \in 0..DefaultMaxRetries
          BY BoundsAssumption
        <5> QED BY <5>1, <5>2 DEF Sets
      <4> HIDE DEF gone
      <4>2. /\ api' = gone /\ obj' = gone /\ cache' = cache /\ fresh' = TRUE
            /\ cacheFresh' \in BOOLEAN
            /\ cacheFresh' => cacheFresh /\ gone = api
        BY <1>0, <3>2 DEF Accepted, SetPart
      <4> QED BY <1>0, <4>1, <4>2 DEF SetPart
    <3> QED BY <1>10, <3>1, <3>2 DEF Release
  <2>2. MapPart' /\ PlacePart'
    BY <1>0, <1>10, PartFrames DEF Release, PlacePart, Places
  <2> QED BY <2>1, <2>2 DEF TypeInv
<1> QED BY <1>3, <1>4, <1>5, <1>6, <1>7, <1>8, <1>9, <1>10

(* The steps of Reconcile that write a ConfigMap.                           *)
LEMMA NodeType ==
    ASSUME TypeInv, CreateNode \/ Connect \/ DeleteNode \/ UpdateNode \/ Purge
    PROVE  TypeInv'
<1>0. SetPart /\ MapPart /\ PlacePart /\ TypeOK /\ obj \in Sets
  BY Parts DEF TypeInv, SetPart
<1>1. obj.replicas \in Nat /\ listed \subseteq Indices
  BY <1>0, BoundsAssumption DEF Sets, PlacePart
<1>2. CASE CreateNode
  <2>1. nextIndex \in Indices
    BY <1>2, Chosen DEF CreateNode
  <2>2. MapPart'
    BY <1>0, <1>2, <2>1, PartFrames, MapTypes DEF CreateNode
  <2>3. /\ [obj EXCEPT !.operations = 0] \in Sets
        /\ [obj EXCEPT !.operations = 0].replicas = obj.replicas
    BY <1>0, ObjectTypes DEF Sets
  <2>4. SetPart' /\ obj'.replicas = obj.replicas
    BY <1>2, <2>3, PartFrames, Rewritten DEF CreateNode
  <2>5. PlacePart'
    BY <1>0, <1>2, <2>4, PartFrames
       DEF CreateNode, SaveMeta, PlacePart, Places, Working
  <2> QED BY <2>2, <2>4, <2>5 DEF TypeInv
<1>3. CASE Connect
  <2>1. nextIndex \in Indices
    BY <1>3, Chosen DEF Connect
  <2>2. nodes[nextIndex] \in ConfigMaps
    BY <1>0, <2>1 DEF MapPart
  <2>3. MapPart'
    BY <1>0, <1>3, <2>1, <2>2, PartFrames, MapTypes DEF Connect
  <2>4. SetPart' /\ obj' = obj
    BY <1>3, PartFrames DEF Connect
  <2>5. PlacePart'
    BY <1>0, <1>3, <2>1, <2>4, PartFrames
       DEF Connect, PlacePart, Places, Working
  <2> QED BY <2>3, <2>4, <2>5 DEF TypeInv
<1>4. CASE DeleteNode
  <2>1. Max(listed) \in Indices
    BY <1>1, <1>4, Chosen DEF DeleteNode
  <2>2. MapPart'
    BY <1>0, <1>4, <2>1, PartFrames, MapTypes DEF DeleteNode
  <2>3. SetPart' /\ obj' = obj
    BY <1>4, PartFrames DEF DeleteNode
  <2>4. listed' \subseteq Indices
    BY <1>1, <1>4 DEF DeleteNode
  <2>5. pc' = "shrink" => listed' # {}
    BY <1>1, <1>4, <2>4, IndicesFinite DEF DeleteNode
  <2>6. PlacePart'
    BY <1>0, <1>4, <2>3, <2>4, <2>5
       DEF DeleteNode, PlacePart, Places, Working
  <2> QED BY <2>2, <2>3, <2>6 DEF TypeInv
<1>5. CASE UpdateNode
  <2>1. Min(listed) \in Indices
    BY <1>1, <1>5, Chosen DEF UpdateNode
  <2>2. nodes[Min(listed)] \in ConfigMaps
    BY <1>0, <2>1 DEF MapPart
  <2>3. MapPart'
    BY <1>0, <1>5, <2>1, <2>2, PartFrames, MapTypes DEF UpdateNode
  <2>4. /\ [obj EXCEPT !.operations = 0] \in Sets
        /\ [obj EXCEPT !.operations = 0].replicas = obj.replicas
        /\ OneMore \in Sets /\ OneMore.replicas = obj.replicas
    BY <1>0, <1>5, ObjectTypes, Rewritten DEF Sets, UpdateNode
  <2>5. SetPart'
    BY <1>5, <2>4, PartFrames, Rewritten DEF UpdateNode
  <2>6. /\ faults' \in 0..MaxFaults /\ listed' \subseteq Indices
        /\ pc' \in {"success", "update", "failed"}
        /\ pc' = "update" => listed' # {}
    BY <1>0, <1>1, <1>5, PartFrames
       DEF UpdateNode, SaveMeta, Failed, Conflicted, Save, PlacePart
  <2>7. PlacePart'
    BY <1>0, <1>5, <2>6 DEF UpdateNode, PlacePart, Places, Working
  <2> QED BY <2>3, <2>5, <2>7 DEF TypeInv
<1>6. CASE Purge
  <2>1. Min(listed) \in Indices
    BY <1>1, <1>6, Chosen DEF Purge
  <2>2. MapPart'
    BY <1>0, <1>6, <2>1, PartFrames, MapTypes DEF Purge
  <2>3. SetPart' /\ obj' = obj
    BY <1>6, PartFrames DEF Purge
  <2>4. /\ faults' \in 0..MaxFaults /\ errors' \in BOOLEAN
        /\ listed' \subseteq Indices
        /\ pc' \in {"purge", "unpurged", "release"}
        /\ pc' = "purge" => listed' # {}
    BY <1>0, <1>1, <1>6, PartFrames DEF Purge, purgeStep, PlacePart
  <2>5. PlacePart'
    BY <1>0, <1>6, <2>4 DEF Purge, PlacePart, Places, Deleting
  <2> QED BY <2>2, <2>3, <2>5 DEF TypeInv
<1> QED BY <1>2, <1>3, <1>4, <1>5, <1>6

(* Every step keeps the types.                                              *)
LEMMA NextType == TypeInv /\ [Next]_vars => TypeInv'
<1> SUFFICES ASSUME TypeInv, [Next]_vars PROVE TypeInv'
  OBVIOUS
<1>1. CASE UNCHANGED vars
  BY <1>1 DEF vars, server, maps, local, TypeInv, SetPart, MapPart, Delivered,
             PlacePart
<1>2. CASE Next
  BY <1>2, OutsideType, BeatType, QuietType, WriteType, NodeType
     DEF Next, Worker, Reconciling, Beat, Environment
<1> QED BY <1>1, <1>2

(* No operation of the controller, no informer, heartbeat, user, fault or   *)
(* crash leads out of the types: in particular the retry counters stay      *)
(* within DefaultMaxRetries, and scaleUpE2Nodes, scaleDownE2Nodes and       *)
(* handleDeletion never run out of the index they are about to take.        *)
THEOREM NodeSetTypeOK == Spec => []TypeOK
<1>1. Spec => []TypeInv
  BY InitType, NextType, PTL DEF Spec
<1> QED BY <1>1, Parts, PTL

-----------------------------------------------------------------------------
(* What the steps do to the ConfigMaps: each changes one at most.           *)

(* Every step of Reconcile or of a heartbeat that writes a ConfigMap is one *)
(* of these: a node is created, deleted, moved forward or reconfigured.     *)
Touches ==
    \/ UNCHANGED maps
    \/ \E i \in Indices :
          \/ /\ pc = "create" /\ nodes[i] = Absent
             /\ Change(i, [state |-> 1, config |-> obj.config,
                           owned |-> TRUE])
          \/ pc \in {"shrink", "purge"} /\ Change(i, Absent)
          \/ /\ pc = "connect" /\ nodes[i].state = 1
             /\ Change(i, [nodes[i] EXCEPT !.state = 3])
          \/ /\ cmCache[i] = nodes[i] /\ nodes[i].state > 0
             /\ Change(i, Beaten(nodes[i]))
          \/ /\ pc = "update" /\ i \in current
             /\ Change(i, Updated(nodes[i]))

(* The other writes of the ConfigMaps' variables are the informer's, the    *)
(* restart's and Reconcile's own notes.                                     *)
LEMMA StepTouches ==
    ASSUME TypeInv, [Next]_vars
    PROVE  Touches \/ ConfigMapEvent \/ Crash \/ ListNodes \/ Return
<1>1. CASE CreateNode
  <2>1. nextIndex \in Indices
    BY <1>1, Chosen DEF CreateNode
  <2> QED BY <1>1, <2>1 DEF CreateNode, Touches
<1>2. CASE Connect
  <2>1. nextIndex \in Indices
    BY <1>2, Chosen DEF Connect
  <2> QED BY <1>2, <2>1 DEF Connect, Touches
<1>3. CASE DeleteNode
  <2>1. Max(listed) \in Indices
    BY <1>3, Chosen DEF DeleteNode, TypeInv, PlacePart
  <2> QED BY <1>3, <2>1 DEF DeleteNode, Touches
<1>4. CASE Purge
  <2>1. Min(listed) \in Indices
    BY <1>4, Chosen DEF Purge, TypeInv, PlacePart
  <2> QED BY <1>4, <2>1 DEF Purge, Touches
<1>5. CASE UpdateNode
  <2>1. Min(listed) \in Indices
    BY <1>5, Chosen DEF UpdateNode, TypeInv, PlacePart
  <2> QED BY <1>5, <2>1 DEF UpdateNode, Touches
<1>6. CASE Heartbeat
  <2>1. PICK i \in Present(cmCache) :
           /\ \A k \in DOMAIN pending : pending[k] # i
           /\ Change(i, Beaten(cmCache[i]))
    BY <1>6 DEF Heartbeat
  <2>2. i \in Indices /\ cmCache[i].state > 0
    BY DEF Present
  <2>3. cmCache[i] = nodes[i]
    BY <2>1, <2>2 DEF TypeInv, MapPart, Delivered
  <2> QED BY <2>1, <2>2, <2>3 DEF Touches
<1>7. CASE UNCHANGED vars
  BY <1>7 DEF vars, Touches
<1>8. CASE Read \/ AddFinalizer \/ CreateNodeFails \/ Exhausted \/ ConnectFails
           \/ DeleteNodeFails \/ ClearRetries \/ UpdateStatus \/ SetReady
           \/ ReturnError \/ ListForDeletion \/ CleanupFailed \/ Release
  BY <1>8
     DEF Touches, Read, AddFinalizer, CreateNodeFails, Exhausted,
         ConnectFails, DeleteNodeFails, ClearRetries, UpdateStatus, SetReady,
         ReturnError, ListForDeletion, CleanupFailed, Release
<1>9. CASE HeartbeatStatus \/ SetEvent \/ UserEdit \/ UserDelete
  BY <1>9 DEF Touches, HeartbeatStatus, SetEvent, UserEdit, UserDelete
<1> QED BY <1>1, <1>2, <1>3, <1>4, <1>5, <1>6, <1>7, <1>8, <1>9
        DEF Next, Worker, Reconciling, Beat, Environment

(* So a ConfigMap that stays has moved forward, and its configuration is    *)
(* the old one or Reconcile's.                                              *)
LEMMA NodeMoves ==
    ASSUME TypeInv, [Next]_vars, NEW j \in Indices
    PROVE  \/ nodes'[j] = nodes[j]
           \/ /\ pc = "create" /\ nodes[j].state = 0
              /\ nodes'[j].state = 1 /\ nodes'[j].config = obj.config
              /\ nodes'[j].owned
           \/ /\ pc \in {"shrink", "purge"}
              /\ nodes'[j].state = 0 /\ nodes'[j].config = 0
           \/ /\ nodes[j].state > 0 /\ nodes'[j].state >= nodes[j].state
              /\ nodes'[j].config = nodes[j].config
              /\ nodes'[j].owned = nodes[j].owned
           \/ /\ pc = "update" /\ j \in current
              /\ nodes'[j].state = nodes[j].state
              /\ nodes'[j].config = obj.config
<1>0. MapPart /\ TypeOK /\ nodes[j] \in ConfigMaps
  BY Parts DEF TypeInv, MapPart
<1>1. CASE ConfigMapEvent \/ Crash \/ ListNodes \/ Return
  BY <1>1 DEF ConfigMapEvent, Crash, ListNodes, Return
<1>2. CASE Touches
  <2>1. CASE UNCHANGED maps
    BY <2>1 DEF maps
  <2>2. ASSUME NEW i \in Indices, NEW cm, Change(i, cm)
        PROVE  nodes'[j] = IF j = i THEN cm ELSE nodes[j]
    BY <1>0, <2>2 DEF Change, MapPart
  <2>3. CASE \E i \in Indices : pc = "create" /\ nodes[i] = Absent
             /\ Change(i, [state |-> 1, config |-> obj.config, owned |-> TRUE])
    BY <2>2, <2>3 DEF Absent
  <2>4. CASE \E i \in Indices :
                pc \in {"shrink", "purge"} /\ Change(i, Absent)
    BY <2>2, <2>4 DEF Absent
  <2>5. CASE \E i \in Indices : pc = "connect" /\ nodes[i].state = 1
                /\ Change(i, [nodes[i] EXCEPT !.state = 3])
    BY <1>0, <2>2, <2>5 DEF ConfigMaps
  <2>6. CASE \E i \in Indices : nodes[i].state > 0
                /\ Change(i, Beaten(nodes[i]))
    <3>1. nodes[j].state > 0 =>
             /\ Beaten(nodes[j]).state >= nodes[j].state
             /\ Beaten(nodes[j]).config = nodes[j].config
             /\ Beaten(nodes[j]).owned = nodes[j].owned
      BY <1>0 DEF ConfigMaps, Beaten
    <3> QED BY <2>2, <2>6, <3>1
  <2>7. CASE \E i \in Indices : pc = "update" /\ i \in current
                /\ Change(i, Updated(nodes[i]))
    BY <2>2, <2>7 DEF Updated
  <2> QED BY <1>2, <2>1, <2>3, <2>4, <2>5, <2>6, <2>7 DEF Touches
<1> QED BY <1>1, <1>2, StepTouches

-----------------------------------------------------------------------------
(* Configurations.                                                          *)

(* A new set is in its first configuration, and so are its copies.          *)
LEMMA InitConfigured == Init => Configured
<1> SUFFICES ASSUME Init PROVE Configured
  OBVIOUS
<1>1. api.config = 0 /\ cache.config = 0
  BY DEF Init, NewSet
<1>2. \A i \in Indices : nodes[i].config = 0
  BY DEF Init, Absent
<1> QED BY <1>1, <1>2 DEF Init, Configured

(* The copies of the set stay in order, whoever writes.                     *)
LEMMA CopiesConfigured ==
    ASSUME TypeInv, Configured, [Next]_vars
    PROVE  /\ cache.config <= cache'.config
           /\ cache'.config <= api'.config
           /\ cacheFresh' => cache'.config = api'.config
           /\ pc # "idle" /\ pc' # "idle" => obj'.config = obj.config
           /\ pc = "idle" /\ pc' # "idle" =>
                  obj' = cache /\ cache' = cache
           /\ fresh' => obj'.config = api'.config /\ cache'.config = api'.config
           /\ pc = "idle" /\ pc' # "idle" => nodes' = nodes
<1>0. SetPart /\ TypeOK /\ obj \in Sets /\ api \in Sets /\ cache \in Sets
  BY Parts DEF TypeInv, SetPart
<1>a. /\ api.config \in 0..1 /\ cache.config \in 0..1 /\ obj.config \in 0..1
  BY <1>0 DEF Sets
<1> DEFINE Goal == /\ cache.config <= cache'.config
                   /\ cache'.config <= api'.config
                   /\ cacheFresh' => cache'.config = api'.config
                   /\ obj'.config = obj.config
                   /\ fresh' => /\ obj'.config = api'.config
                                /\ cache'.config = api'.config
<1>1. ASSUME NEW o \in Sets, o.config = obj.config, Written(o) PROVE Goal
  BY <1>0, <1>a, <1>1 DEF Written, Configured
<1>2. ASSUME UNCHANGED <<server, obj, fresh>> PROVE Goal
  BY <1>2, <1>a DEF server, Configured
<1>3. /\ [obj EXCEPT !.finalizer = TRUE].config = obj.config
      /\ [obj EXCEPT !.operations = 0].config = obj.config
      /\ [obj EXCEPT !.cleanup = @ + 1].config = obj.config
      /\ OneMore.config = obj.config
  BY <1>0, Rewritten DEF Sets
<1> HIDE DEF Goal
<1>4. CASE AddFinalizer
  BY <1>4, <1>0, <1>1, <1>3, ObjectTypes, Rewritten DEF AddFinalizer, Goal
<1>5. CASE CreateNodeFails \/ DeleteNodeFails \/ UpdateNode
  <2>1. CASE UNCHANGED <<server, obj, fresh>>
    BY <1>5, <1>2, <2>1
       DEF Goal, CreateNodeFails, DeleteNodeFails, UpdateNode
  <2>2. CASE obj.operations < DefaultMaxRetries
             /\ (Failed \/ Conflicted
                 \/ SaveMeta([obj EXCEPT !.operations = 0]))
    BY <1>5, <1>0, <1>1, <1>3, <2>2, ObjectTypes, Rewritten
       DEF Goal, CreateNodeFails, DeleteNodeFails, UpdateNode
  <2> QED BY <1>5, <2>1, <2>2 DEF CreateNodeFails, DeleteNodeFails, UpdateNode
<1>6. CASE CreateNode
  BY <1>6, <1>0, <1>1, <1>3, ObjectTypes, Rewritten DEF CreateNode, Goal
<1>7. CASE ClearRetries \/ SetReady \/ ReturnError
  <2>1. Goal
    BY <1>7, <1>1, EndWrites
  <2>2. pc # "idle"
    BY <1>7 DEF ClearRetries, SetReady, ReturnError
  <2> QED BY <2>1, <2>2 DEF Goal
<1>8. CASE CleanupFailed
  BY <1>8, <1>0, <1>1, <1>3, ObjectTypes, Rewritten DEF CleanupFailed, Goal
<1>9. CASE Release
  <2>1. CASE Refused(obj)
    BY <1>9, <1>0, <1>1, <2>1, Rewritten DEF Release, Goal
  <2> DEFINE gone == [WithMeta(obj) EXCEPT !.finalizer = FALSE,
                                           !.exists = FALSE, !.cleanup = 0]
  <2>2. CASE fresh /\ Accepted(gone)
    <3>1. gone.config = api.config
      BY <1>0 DEF WithMeta, Sets
    <3> HIDE DEF gone
    <3> QED BY <1>9, <1>a, <2>2, <3>1 DEF Accepted, Configured, Release
  <2> QED BY <1>9, <2>1, <2>2 DEF Release
<1>10. CASE Exhausted \/ Connect \/ ConnectFails \/ DeleteNode \/ ListNodes
            \/ ListForDeletion \/ Purge
  BY <1>10, <1>2
     DEF Goal, Exhausted, Connect, ConnectFails, DeleteNode, ListNodes,
         ListForDeletion, Purge, local
<1>11. CASE Read \/ Return
  BY <1>11, <1>0, <1>a DEF Read, Return, Configured, server, SetPart, maps
<1>12. CASE UpdateStatus \/ HeartbeatStatus
  BY <1>12, <1>a
     DEF UpdateStatus, HeartbeatStatus, NewStatus, Configured, server
<1>13. CASE SetEvent \/ UserEdit \/ UserDelete \/ Crash
  BY <1>13, <1>0, <1>a
     DEF SetEvent, UserEdit, UserDelete, Crash, Configured, local, Sets, maps
<1>14. CASE UNCHANGED vars \/ Heartbeat \/ ConfigMapEvent
  BY <1>14, <1>2 DEF vars, Heartbeat, ConfigMapEvent, Goal, local
<1> QED BY <1>4, <1>5, <1>6, <1>7, <1>8, <1>9, <1>10, <1>11, <1>12, <1>13,
           <1>14
        DEF Next, Worker, Reconciling, Beat, Environment

(* No step brings an older configuration to a node.                         *)
LEMMA NextConfigured ==
    TypeInv /\ Configured /\ [Next]_vars => Configured'
<1> SUFFICES ASSUME TypeInv, Configured, [Next]_vars PROVE Configured'
  OBVIOUS
<1>0. TypeInv'
  BY NextType
<1>1. /\ \A i \in Indices :
            nodes[i].config \in 0..1 /\ nodes'[i].config \in 0..1
      /\ api.config \in 0..1 /\ cache.config \in 0..1 /\ obj.config \in 0..1
      /\ api'.config \in 0..1 /\ cache'.config \in 0..1
      /\ obj'.config \in 0..1
  BY <1>0 DEF TypeInv, SetPart, MapPart, Sets, ConfigMaps
<1>2. \A i \in Indices :
         \/ nodes'[i].config = nodes[i].config
         \/ nodes'[i].config = 0
         \/ pc # "idle" /\ nodes'[i].config = obj.config
  BY NodeMoves
<1>3. \A i \in Indices : nodes'[i].config <= cache'.config
  BY <1>1, <1>2, CopiesConfigured DEF Configured
<1>4. ASSUME pc' # "idle"
      PROVE  /\ obj'.config <= cache'.config
             /\ \A i \in Indices : nodes'[i].config <= obj'.config
  <2>1. CASE pc = "idle"
    BY <1>1, <1>3, <1>4, <2>1, CopiesConfigured
  <2>2. CASE pc # "idle"
    <3>1. obj'.config = obj.config
      BY <1>4, <2>2, CopiesConfigured
    <3>2. obj'.config <= cache'.config
      BY <1>1, <2>2, <3>1, CopiesConfigured DEF Configured
    <3>3. \A i \in Indices : nodes'[i].config <= obj'.config
      BY <1>1, <1>2, <2>2, <3>1 DEF Configured
    <3> QED BY <3>2, <3>3
  <2> QED BY <2>1, <2>2
<1> QED BY <1>3, <1>4, CopiesConfigured DEF Configured

(* A node's lifecycle state never goes back and its configuration never     *)
(* returns to an older one, although Reconcile works on stale copies and    *)
(* the heartbeats write the same ConfigMaps: updateE2Nodes is refused       *)
(* unless it has the current version, and no copy of the set it can have    *)
(* is older than what is written already.                                   *)
THEOREM NodesForwardTheorem == Spec => NodesMoveForward
<1>1. ASSUME TypeInv, Configured, [Next]_vars, NEW i \in Indices,
             nodes[i].state > 0, nodes'[i].state > 0
      PROVE  /\ nodes[i].state <= nodes'[i].state
             /\ nodes[i].config <= nodes'[i].config
  <2>1. /\ nodes[i].config \in 0..1 /\ nodes[i].state \in 0..3
        /\ obj.config \in 0..1
    BY <1>1 DEF TypeInv, SetPart, MapPart, Sets, ConfigMaps
  <2>2. TypeInv'
    BY <1>1, NextType
  <2>3. nodes'[i].config \in 0..1 /\ nodes'[i].state \in 0..3
    BY <2>2 DEF TypeInv, MapPart, ConfigMaps
  <2> QED BY <1>1, <2>1, <2>3, NodeMoves DEF Configured
<1>2. TypeInv /\ Configured /\ [Next]_vars =>
         [\A i \in Present(nodes) \cap Present(nodes') :
             /\ nodes[i].state <= nodes'[i].state
             /\ nodes[i].config <= nodes'[i].config]_vars
  BY <1>1 DEF Present
<1>3. Spec => []TypeInv
  BY InitType, NextType, PTL DEF Spec
<1>4. Spec => []Configured
  BY <1>3, InitConfigured, NextConfigured, PTL DEF Spec
<1> QED BY <1>2, <1>3, <1>4, PTL DEF Spec, NodesMoveForward

-----------------------------------------------------------------------------
(* The finalizer.                                                           *)

(* A new set has no finalizer, and Reconcile has not begun.                 *)
LEMMA InitGuarded == Init => Guarded
<1> SUFFICES ASSUME Init PROVE Guarded
  OBVIOUS
<1>1. /\ ~api.deleting /\ ~api.finalizer /\ cache = api
  BY DEF Init, NewSet
<1>2. pc = "idle" /\ ~fresh
  BY DEF Init
<1> QED BY <1>1, <1>2 DEF Guarded, Working, Deleting

(* A place of Reconcile that is left for another of its kind, or for the    *)
(* end.                                                                     *)
Onward == \/ pc' = pc
          \/ pc' = "return"
          \/ pc \in Working /\ pc' \in Working
          \/ pc \in Deleting /\ pc' \in Deleting

(* A write of the set keeps the finalizer on, but for the last one.         *)
LEMMA WriteGuarded ==
    ASSUME TypeInv, Guarded, pc \notin {"idle", "return"}, Onward,
           NEW o \in Sets, Written(o), o.finalizer \/ pc \in Deleting
    PROVE  Guarded'
<1>0. /\ api \in Sets /\ cache \in Sets /\ obj \in Sets /\ fresh \in BOOLEAN
      /\ pc \in Places
  BY DEF TypeInv, SetPart, PlacePart
<1>1. /\ api.finalizer \in BOOLEAN /\ obj.finalizer \in BOOLEAN
      /\ o.finalizer \in BOOLEAN /\ api'.finalizer \in BOOLEAN
      /\ cache.finalizer \in BOOLEAN
  BY <1>0 DEF Sets, Written
<1>2. Working \cap Deleting = {} /\ "idle" \notin Working \cup Deleting
      /\ "return" \notin Working \cup Deleting
  BY DEF Working, Deleting
<1>3. /\ cache' = cache /\ fresh' = fresh
      /\ api'.exists = api.exists /\ api'.deleting = api.deleting
      /\ api'.finalizer # api.finalizer =>
             fresh /\ api'.finalizer = o.finalizer
      /\ obj' = o \/ (fresh /\ obj' = api')
  BY DEF Written
<1>4. fresh => api.exists
  BY DEF Guarded
<1>5. cache'.deleting => api'.deleting
  BY <1>3 DEF Guarded
<1>6. api'.finalizer /\ ~api'.deleting => api'.exists
  BY <1>1, <1>3, <1>4 DEF Guarded
<1>7. cache'.finalizer /\ ~cache'.deleting => api'.finalizer /\ api'.exists
  BY <1>1, <1>3 DEF Guarded
<1>8. /\ pc' = "idle" => ~fresh'
      /\ fresh' /\ pc' # "return" => api'.exists
  BY <1>2, <1>3, <1>4 DEF Onward
<1>9. pc' \in Working => obj'.finalizer /\ api'.finalizer /\ api'.exists
  <2> SUFFICES ASSUME pc' \in Working
               PROVE  obj'.finalizer /\ api'.finalizer /\ api'.exists
    OBVIOUS
  <2>1. pc \in Working
    BY <1>2 DEF Onward
  <2>2. o.finalizer
    BY <1>2, <2>1
  <2> QED BY <1>1, <1>3, <2>1, <2>2 DEF Guarded
<1>10. pc' \in Deleting => cache'.deleting
  BY <1>2, <1>3 DEF Onward, Guarded
<1> QED BY <1>5, <1>6, <1>7, <1>8, <1>9, <1>10 DEF Guarded

(* A step that leaves the set alone keeps the finalizer on.                 *)
LEMMA QuietGuarded ==
    ASSUME Guarded, Onward, UNCHANGED <<server, obj, fresh>>,
           pc # "idle" \/ pc' = pc
    PROVE  Guarded'
<1>1. Working \cap Deleting = {} /\ "idle" \notin Working \cup Deleting
      /\ "return" \notin Working \cup Deleting
  BY DEF Working, Deleting
<1> QED BY <1>1 DEF Guarded, Onward, server

(* Every step keeps the finalizer on as long as Reconcile works.            *)
LEMMA NextGuarded == TypeInv /\ Guarded /\ [Next]_vars => Guarded'
<1> SUFFICES ASSUME TypeInv, Guarded, [Next]_vars PROVE Guarded'
  OBVIOUS
<1>0. SetPart /\ PlacePart /\ TypeOK /\ obj \in Sets /\ api \in Sets
      /\ cache \in Sets
  BY Parts DEF TypeInv, SetPart
<1>1. /\ [obj EXCEPT !.finalizer = TRUE].finalizer
      /\ [obj EXCEPT !.operations = 0].finalizer = obj.finalizer
      /\ [obj EXCEPT !.cleanup = @ + 1].finalizer = obj.finalizer
      /\ OneMore.finalizer = obj.finalizer
  BY <1>0, Rewritten DEF Sets
<1>2. pc \in Working => obj.finalizer /\ pc \notin {"idle", "return"}
  BY DEF Guarded, Working
<1>3. CASE AddFinalizer
  BY <1>3, <1>0, <1>1, ObjectTypes, Rewritten, WriteGuarded
     DEF AddFinalizer, Onward
<1>4. CASE CreateNodeFails \/ DeleteNodeFails \/ UpdateNode
  <2>1. /\ pc \in Working /\ pc' \in Working /\ Onward
    BY <1>4 DEF CreateNodeFails, DeleteNodeFails, UpdateNode, Failed,
                Conflicted, Working, Onward
  <2>2. CASE UNCHANGED <<server, obj, fresh>>
    BY <1>2, <2>1, <2>2, QuietGuarded
  <2>3. CASE obj.operations < DefaultMaxRetries
             /\ (Failed \/ Conflicted
                 \/ SaveMeta([obj EXCEPT !.operations = 0]))
    BY <1>0, <1>1, <1>2, <2>1, <2>3, ObjectTypes, Rewritten, WriteGuarded
  <2> QED BY <1>4, <2>2, <2>3 DEF CreateNodeFails, DeleteNodeFails, UpdateNode
<1>5. CASE CreateNode
  <2>1. /\ pc \in Working /\ pc' \in Working /\ Onward
    BY <1>5 DEF CreateNode, Working, Onward
  <2> QED BY <1>5, <1>0, <1>1, <1>2, <2>1, ObjectTypes, Rewritten, WriteGuarded
          DEF CreateNode
<1>6. CASE ClearRetries \/ SetReady \/ ReturnError
  <2>1. /\ pc \in Working /\ Onward
    BY <1>6 DEF ClearRetries, SetReady, ReturnError, Working, Onward
  <2>2. PICK o \in Sets : o.finalizer = obj.finalizer /\ Written(o)
    BY <1>6, EndWrites
  <2> QED BY <1>0, <1>2, <2>1, <2>2, WriteGuarded
<1>7. CASE CleanupFailed
  <2>1. /\ pc \in Deleting /\ Onward /\ pc \notin {"idle", "return"}
    BY <1>7 DEF CleanupFailed, Deleting, Onward
  <2>2. \E o \in Sets : Written(o)
    BY <1>7, <1>0, ObjectTypes, Rewritten DEF CleanupFailed
  <2> QED BY <2>1, <2>2, WriteGuarded
<1>8. CASE Release
  <2>1. /\ pc \in Deleting /\ Onward /\ pc \notin {"idle", "return"}
        /\ pc' = "return"
    BY <1>8 DEF Release, Deleting, Onward
  <2>2. CASE Refused(obj)
    BY <1>0, <2>1, <2>2, Rewritten, WriteGuarded
  <2> DEFINE gone == [WithMeta(obj) EXCEPT !.finalizer = FALSE,
                                           !.exists = FALSE, !.cleanup = 0]
  <2>3. CASE fresh /\ Accepted(gone)
    <3>1. gone.deleting = api.deleting /\ gone.finalizer = FALSE
      BY <1>0 DEF WithMeta, Sets
    <3> HIDE DEF gone
    <3>2. api' = gone /\ cache' = cache
      BY <2>3 DEF Accepted
    <3>3. cache.deleting /\ api.deleting
      BY <2>1 DEF Guarded
    <3> QED BY <2>1, <3>1, <3>2, <3>3 DEF Guarded, Working, Deleting
  <2> QED BY <1>8, <2>2, <2>3 DEF Release
<1>9. CASE Exhausted \/ Connect \/ ConnectFails \/ DeleteNode \/ ListNodes
  <2>1. Onward /\ pc # "idle" /\ UNCHANGED <<server, obj, fresh>>
    BY <1>9 DEF Exhausted, Connect, ConnectFails, DeleteNode, ListNodes,
                local, Onward, Working
  <2> QED BY <2>1, QuietGuarded
<1>10. CASE ListForDeletion \/ Purge
  <2>1. Onward /\ pc # "idle" /\ UNCHANGED <<server, obj, fresh>>
    BY <1>10 DEF ListForDeletion, Purge, purgeStep, Onward, Deleting
  <2> QED BY <2>1, QuietGuarded
<1>11. CASE Read
  <2>1. pc' \in {"return", "listDeleted", "finalizer", "list"}
    BY <1>11 DEF Read
  <2>2. /\ pc' = "list" =>
               cache.exists /\ ~cache.deleting /\ cache.finalizer
        /\ pc' = "listDeleted" => cache.deleting
        /\ pc' # "return" => cache.exists
    BY <1>11, <1>0 DEF Read, Sets
  <2>3. /\ api' = api /\ cache' = cache /\ obj' = cache
        /\ fresh' = cacheFresh
    BY <1>11 DEF Read, server
  <2>4. fresh' => cache = api
    BY <1>0, <2>3 DEF SetPart
  <2> QED BY <2>1, <2>2, <2>3, <2>4 DEF Guarded, Working, Deleting
<1>12. CASE Return
  BY <1>12 DEF Return, Guarded, server, Working, Deleting
<1>13. CASE UpdateStatus \/ HeartbeatStatus
  <2>1. /\ api' = api /\ cache' = cache /\ obj' = obj
        /\ fresh' => fresh
    BY <1>13 DEF UpdateStatus, HeartbeatStatus, NewStatus, server
  <2>2. pc' = pc \/ (pc \in Working /\ pc' \in Working /\ pc' # "idle")
    BY <1>13 DEF UpdateStatus, HeartbeatStatus, Working
  <2> QED BY <2>1, <2>2 DEF Guarded, Working, Deleting
<1>14. CASE SetEvent
  BY <1>14, <1>0 DEF SetEvent, Guarded, local, Working, Deleting
<1>15. CASE UserEdit
  <2>1. /\ api'.exists = api.exists /\ api'.deleting = api.deleting
        /\ api'.finalizer = api.finalizer
    BY <1>15, <1>0 DEF UserEdit, Sets
  <2> QED BY <1>15, <2>1 DEF UserEdit, Guarded
<1>16. CASE UserDelete
  <2>1. CASE api.finalizer
    <3>1. api'.deleting /\ api'.exists /\ api'.finalizer
      BY <1>16, <1>0, <2>1 DEF UserDelete, Sets
    <3> QED BY <1>16, <3>1 DEF UserDelete, Guarded
  <2>2. CASE ~api.finalizer
    <3>1. api'.deleting = api.deleting /\ ~api'.finalizer
      BY <1>16, <1>0, <2>2 DEF UserDelete, Sets
    <3> QED BY <1>16, <2>2, <3>1 DEF UserDelete, Guarded
  <2> QED BY <2>1, <2>2
<1>17. CASE Crash
  BY <1>17 DEF Crash, Guarded, Working, Deleting
<1>18. CASE UNCHANGED vars \/ Heartbeat \/ ConfigMapEvent
  <2>1. pc' = pc /\ UNCHANGED <<server, obj, fresh>>
    BY <1>18 DEF vars, Heartbeat, ConfigMapEvent, local
  <2> QED BY <2>1, QuietGuarded DEF Onward
<1> QED BY <1>3, <1>4, <1>5, <1>6, <1>7, <1>8, <1>9, <1>10, <1>11, <1>12,
           <1>13, <1>14, <1>15, <1>16, <1>17, <1>18
        DEF Next, Worker, Reconciling, Beat, Environment

-----------------------------------------------------------------------------
(* The informer's cache of ConfigMaps.                                      *)

(* There is nothing to see at first.                                        *)
LEMMA InitVisible == Init => Visible
  BY DEF Init, Visible, Loose, Absent

(* One change of a ConfigMap: the node was there already, in the cache too, *)
(* or its ConfigMap has an owner afterwards, or is gone.                    *)
LEMMA ChangeVisible ==
    ASSUME TypeInv, Visible, NEW i \in Indices, NEW cm \in ConfigMaps,
           Change(i, cm),
           cm.state > 0 /\ ~cm.owned => cmCache[i].state > 0
    PROVE  Visible'
<1>1. /\ nodes'[i] = cm /\ \A j \in Indices : j # i => nodes'[j] = nodes[j]
      /\ \E k \in DOMAIN pending' : pending'[k] = i
      /\ \A k \in DOMAIN pending :
            \E l \in DOMAIN pending' : pending'[l] = pending[k]
      /\ current' = current \ {i} /\ cmCache' = cmCache
      /\ current' \subseteq Indices
  BY Parts, ChangeOutcome
<1>3. \A j \in current' : cmCache'[j].state > 0 /\ nodes'[j].state > 0
  BY <1>1 DEF Visible
<1>4. \A j \in Loose' : cmCache'[j].state > 0
  BY <1>1 DEF Visible, Loose
<1> QED BY <1>3, <1>4 DEF Visible

(* What the informer has not heard of has an owner.                         *)
LEMMA NextVisible == TypeInv /\ Visible /\ [Next]_vars => Visible'
<1> SUFFICES ASSUME TypeInv, Visible, [Next]_vars PROVE Visible'
  OBVIOUS
<1>0. MapPart /\ TypeOK /\ \A i \in Indices : nodes[i] \in ConfigMaps
  BY Parts DEF TypeInv, MapPart
<1>1. CASE Touches
  <2>1. CASE UNCHANGED maps
    BY <2>1 DEF maps, Visible, Loose
  <2>2. CASE \E i \in Indices : pc = "create" /\ nodes[i] = Absent
             /\ Change(i, [state |-> 1, config |-> obj.config, owned |-> TRUE])
    <3>1. PICK i \in Indices :
             Change(i, [state |-> 1, config |-> obj.config, owned |-> TRUE])
      BY <2>2
    <3>2. [state |-> 1, config |-> obj.config, owned |-> TRUE].owned
      OBVIOUS
    <3> QED BY <1>0, <3>1, <3>2, MapTypes, ChangeVisible
  <2>3. CASE \E i \in Indices :
                pc \in {"shrink", "purge"} /\ Change(i, Absent)
    <3>1. Absent \in ConfigMaps /\ ~(Absent.state > 0)
      BY <1>0, MapTypes DEF Absent
    <3> QED BY <2>3, <3>1, ChangeVisible
  <2>4. CASE \E i \in Indices : pc = "connect" /\ nodes[i].state = 1
                /\ Change(i, [nodes[i] EXCEPT !.state = 3])
    <3>1. PICK i \in Indices : nodes[i].state = 1
                  /\ Change(i, [nodes[i] EXCEPT !.state = 3])
      BY <2>4
    <3>2. /\ [nodes[i] EXCEPT !.state = 3] \in ConfigMaps
          /\ [nodes[i] EXCEPT !.state = 3].owned = nodes[i].owned
      BY <1>0, MapTypes DEF ConfigMaps
    <3>3. ~nodes[i].owned => cmCache[i].state > 0
      BY <3>1 DEF Visible, Loose
    <3> QED BY <3>1, <3>2, <3>3, ChangeVisible
  <2>5. CASE \E i \in Indices : cmCache[i] = nodes[i]
                /\ nodes[i].state > 0 /\ Change(i, Beaten(nodes[i]))
    <3>1. PICK i \in Indices : cmCache[i] = nodes[i]
                  /\ nodes[i].state > 0 /\ Change(i, Beaten(nodes[i]))
      BY <2>5
    <3>2. Beaten(nodes[i]) \in ConfigMaps
      BY <1>0, <3>1, MapTypes
    <3> QED BY <3>1, <3>2, ChangeVisible
  <2>6. CASE \E i \in Indices : pc = "update" /\ i \in current
                /\ Change(i, Updated(nodes[i]))
    <3>1. PICK i \in Indices : i \in current /\ Change(i, Updated(nodes[i]))
      BY <2>6
    <3>2. Updated(nodes[i]) \in ConfigMaps
      BY <1>0, MapTypes
    <3>3. cmCache[i].state > 0
      BY <3>1 DEF Visible
    <3> QED BY <3>1, <3>2, <3>3, ChangeVisible
  <2> QED BY <1>1, <2>1, <2>2, <2>3, <2>4, <2>5, <2>6 DEF Touches
<1>2. CASE ConfigMapEvent
  <2>1. nodes' = nodes /\ current' = current
    BY <1>2 DEF ConfigMapEvent
  <2>2. PICK i \in Indices :
           /\ cmCache' = [cmCache EXCEPT ![i] = nodes[i]]
           /\ \A k \in DOMAIN pending :
                 \/ pending[k] = i
                 \/ \E l \in DOMAIN pending' : pending'[l] = pending[k]
    BY <1>0, <1>2, EventOutcome
  <2>3. /\ cmCache'[i] = nodes[i]
        /\ \A j \in Indices : j # i => cmCache'[j] = cmCache[j]
    BY <1>0, <2>2 DEF MapPart
  <2>5. current \subseteq Indices
    BY <1>0 DEF MapPart
  <2>6. \A j \in current' : cmCache'[j].state > 0 /\ nodes'[j].state > 0
    BY <2>1, <2>3, <2>5 DEF Visible
  <2>7. \A j \in Loose' : cmCache'[j].state > 0
    BY <2>1, <2>3 DEF Visible, Loose
  <2> QED BY <2>6, <2>7 DEF Visible
<1>3. CASE Crash
  <2>1. cmCache' = nodes /\ nodes' = nodes /\ current' = {}
    BY <1>3 DEF Crash
  <2> QED BY <2>1 DEF Visible, Loose
<1>4. CASE ListNodes
  <2>1. nodes' = nodes /\ cmCache' = cmCache /\ pending' = pending
    BY <1>4 DEF ListNodes
  <2>2. ASSUME NEW j \in current', current' # current
        PROVE  cmCache[j].state > 0 /\ nodes[j].state > 0
    <3>1. /\ j \in Indices /\ cmCache[j].state > 0
          /\ \A k \in DOMAIN pending : pending[k] # j
      BY <1>4, <2>2 DEF ListNodes, Present
    <3>2. cmCache[j] = nodes[j]
      BY <1>0, <3>1 DEF MapPart, Delivered
    <3> QED BY <3>1, <3>2
  <2>3. \A j \in current' : cmCache'[j].state > 0 /\ nodes'[j].state > 0
    BY <2>1, <2>2 DEF Visible
  <2> QED BY <2>1, <2>3 DEF Visible, Loose
<1>5. CASE Return
  <2>1. /\ nodes' = nodes /\ cmCache' = cmCache /\ pending' = pending
        /\ current' = {}
    BY <1>5 DEF Return
  <2> QED BY <2>1 DEF Visible, Loose
<1> QED BY <1>1, <1>2, <1>3, <1>4, <1>5, StepTouches

-----------------------------------------------------------------------------
(* handleDeletion.                                                          *)

(* Only updateE2Nodes takes the owner from a ConfigMap, and it works under  *)
(* the finalizer.                                                           *)
LEMMA LooseGrows ==
    ASSUME TypeInv, Guarded, [Next]_vars, Loose' \ Loose # {}
    PROVE  pc = "update" /\ api.finalizer /\ api.exists
<1>1. PICK j \in Indices : /\ nodes'[j].state > 0 /\ ~nodes'[j].owned
                           /\ ~(nodes[j].state > 0 /\ ~nodes[j].owned)
  BY DEF Loose
<1>2. nodes[j].state \in 0..3
  BY DEF TypeInv, MapPart, ConfigMaps
<1>3. pc = "update"
  BY <1>1, <1>2, NodeMoves
<1> QED BY <1>3 DEF Guarded, Working

(* Nothing is listed at first.                                              *)
LEMMA InitPurged == Init => Purged /\ Owned
  BY DEF Init, Purged, Owned, Purging, Loose, Absent

(* handleDeletion loses none of the ConfigMaps that need it.                *)
LEMMA NextPurged ==
    TypeInv /\ Guarded /\ Visible /\ Purged /\ [Next]_vars => Purged'
<1> SUFFICES ASSUME TypeInv, Guarded, Visible, Purged, [Next]_vars
             PROVE  Purged'
  OBVIOUS
<1>1. pc # "update" => Loose' \subseteq Loose
  BY LooseGrows
<1>2. CASE ListForDeletion
  <2>1. pc = "listDeleted" /\ errors' = errors /\ ~errors
    BY <1>2 DEF ListForDeletion, Purged
  <2>2. Loose \subseteq Present(cmCache)
    BY DEF Visible, Present, Loose
  <2>3. ~gaveUp' => listed' = Present(cmCache)
    BY <1>2 DEF ListForDeletion
  <2>4. /\ pc' # "listDeleted"
        /\ pc' \in {"unpurged", "release"} => listed' = {}
    BY <1>2 DEF ListForDeletion, purgeStep
  <2>5. ~gaveUp' => Loose' \subseteq listed'
    BY <1>1, <2>1, <2>2, <2>3
  <2> QED BY <2>1, <2>4, <2>5 DEF Purged
<1>3. CASE Purge
  <2>1. /\ pc = "purge" /\ gaveUp' = gaveUp
        /\ listed' = listed \ {Min(listed)}
        /\ pc' = purgeStep(listed', errors')
    BY <1>3 DEF Purge
  <2>2. /\ pc' # "listDeleted"
        /\ pc' \in {"unpurged", "release"} => listed' = {}
        /\ pc' = "release" => ~errors'
    BY <2>1 DEF purgeStep
  <2>3. Min(listed) \in Indices
    BY <2>1, Chosen DEF TypeInv, PlacePart
  <2>4. ~errors' => ~errors /\ nodes'[Min(listed)] = Absent
    BY <1>3, <2>3 DEF Purge, Change, maps, TypeInv, MapPart
  <2>5. ~errors' => Min(listed) \notin Loose'
    BY <2>4 DEF Loose, Absent
  <2>6. ~errors' /\ ~gaveUp' => Loose' \subseteq listed'
    BY <1>1, <2>1, <2>4, <2>5 DEF Purged, Purging
  <2> QED BY <2>2, <2>6 DEF Purged
<1>4. CASE CleanupFailed
  <2>1. /\ pc = "unpurged" /\ pc' \in {"return", "release"}
        /\ pc' = "release" => gaveUp'
        /\ listed' = listed /\ errors' = errors
    BY <1>4 DEF CleanupFailed
  <2>2. CASE pc' = "return"
    BY <2>2 DEF Purged, Purging
  <2>3. CASE pc' = "release"
    <3>1. listed = {}
      BY <2>1 DEF Purged
    <3> QED BY <2>1, <2>3, <3>1 DEF Purged, Purging
  <2> QED BY <2>1, <2>2, <2>3
<1>5. CASE Read
  BY <1>5 DEF Read, Purged, Purging
<1>6. CASE pc' \notin Deleting
  BY <1>6 DEF Purged, Deleting, Purging
<1>7. CASE UNCHANGED <<pc, listed, errors, gaveUp>> /\ pc # "update"
  BY <1>1, <1>7 DEF Purged
<1>8. CASE UNCHANGED <<pc, listed, errors, gaveUp>> /\ pc = "update"
  BY <1>8 DEF Purged, Purging
<1>9. \/ ListForDeletion \/ Purge \/ CleanupFailed \/ Read
      \/ pc' \notin Deleting \/ UNCHANGED <<pc, listed, errors, gaveUp>>
  <2>1. CASE AddFinalizer \/ ListNodes \/ CreateNode \/ CreateNodeFails
             \/ Exhausted \/ Connect \/ ConnectFails \/ DeleteNode
             \/ DeleteNodeFails \/ UpdateNode \/ ClearRetries \/ UpdateStatus
             \/ SetReady \/ ReturnError \/ Return \/ Release
    BY <2>1 DEF AddFinalizer, ListNodes, CreateNode, CreateNodeFails,
                Exhausted, Connect, ConnectFails, DeleteNode,
                DeleteNodeFails, UpdateNode, ClearRetries, UpdateStatus,
                SetReady, ReturnError, Return, Release, Failed, Conflicted,
                Deleting
  <2>2. CASE Heartbeat \/ HeartbeatStatus \/ SetEvent \/ ConfigMapEvent
             \/ UserEdit \/ UserDelete \/ UNCHANGED vars
    BY <2>2 DEF Heartbeat, HeartbeatStatus, SetEvent, ConfigMapEvent,
                UserEdit, UserDelete, vars, local
  <2>3. CASE Crash
    BY <2>3 DEF Crash, Deleting
  <2> QED BY <2>1, <2>2, <2>3 DEF Next, Worker, Reconciling, Beat, Environment
<1> QED BY <1>2, <1>3, <1>4, <1>5, <1>6, <1>7, <1>8, <1>9

(* Only Release lets a guarded set go.                                      *)
LEMMA GoesByRelease ==
    ASSUME TypeInv, Guarded, [Next]_vars, pc # "release",
           api.exists, api.deleting \/ api.finalizer
    PROVE  api'.exists /\ (api'.deleting \/ api'.finalizer)
<1>0. SetPart /\ PlacePart /\ TypeOK /\ obj \in Sets /\ api \in Sets
  BY Parts DEF TypeInv, SetPart
<1> DEFINE Goal == api'.exists /\ (api'.deleting \/ api'.finalizer)
<1>1. ASSUME NEW o, Written(o), o.finalizer \/ pc \in Deleting PROVE Goal
  BY <1>1 DEF Written, Guarded
<1>2. api' = api => Goal
  OBVIOUS
<1>3. /\ [obj EXCEPT !.finalizer = TRUE].finalizer
      /\ [obj EXCEPT !.operations = 0].finalizer = obj.finalizer
      /\ OneMore.finalizer = obj.finalizer
  BY <1>0, Rewritten DEF Sets
<1>4. pc \in Working => obj.finalizer
  BY DEF Guarded
<1> HIDE DEF Goal
<1>5. CASE AddFinalizer
  BY <1>1, <1>3, <1>5, Rewritten DEF AddFinalizer, Goal
<1>6. CASE CreateNodeFails \/ DeleteNodeFails \/ UpdateNode \/ CreateNode
  <2>1. pc \in Working
    BY <1>6 DEF CreateNodeFails, DeleteNodeFails, UpdateNode, CreateNode,
                Working
  <2>2. CASE UNCHANGED server
    BY <1>2, <2>2 DEF server, Goal
  <2>3. CASE obj.operations < DefaultMaxRetries /\ (Failed \/ Conflicted)
    BY <1>1, <1>3, <1>4, <2>1, <2>3, Rewritten DEF Goal
  <2>4. CASE SaveMeta([obj EXCEPT !.operations = 0])
    BY <1>1, <1>3, <1>4, <2>1, <2>4, Rewritten DEF Goal
  <2> QED BY <1>6, <2>2, <2>3, <2>4
          DEF CreateNodeFails, DeleteNodeFails, UpdateNode, CreateNode
<1>7. CASE ClearRetries \/ SetReady \/ ReturnError
  <2>1. pc \in Working /\ \E o : Written(o) /\ o.finalizer = obj.finalizer
    BY <1>7, EndWrites DEF ClearRetries, SetReady, ReturnError, Working
  <2> QED BY <1>1, <1>4, <2>1 DEF Goal
<1>8. CASE CleanupFailed
  <2>1. pc \in Deleting /\ \E o : Written(o)
    BY <1>8, Rewritten DEF CleanupFailed, Deleting
  <2> QED BY <1>1, <2>1 DEF Goal
<1>9. CASE UserEdit \/ UserDelete
  BY <1>0, <1>9 DEF UserEdit, UserDelete, Sets
<1>10. CASE Read \/ ListNodes \/ Exhausted \/ Connect \/ ConnectFails
            \/ DeleteNode \/ UpdateStatus \/ Return \/ ListForDeletion
            \/ Purge
  BY <1>2, <1>10
     DEF Goal, Read, ListNodes, Exhausted, Connect, ConnectFails, DeleteNode,
         UpdateStatus, NewStatus, Return, ListForDeletion, Purge, server
<1>11. CASE Heartbeat \/ HeartbeatStatus \/ SetEvent \/ ConfigMapEvent
            \/ Crash \/ UNCHANGED vars
  BY <1>2, <1>11
     DEF Goal, Heartbeat, HeartbeatStatus, NewStatus, SetEvent,
         ConfigMapEvent, Crash, vars, server
<1>12. ~Release
  BY DEF Release
<1> QED BY <1>5, <1>6, <1>7, <1>8, <1>9, <1>10, <1>11, <1>12
        DEF Next, Worker, Reconciling, Beat, Environment

(* So a set that goes leaves no ConfigMap without an owner, unless          *)
(* handleDeletion has let go of it.                                         *)
LEMMA NextOwned == NodeInv /\ [Next]_vars => Owned'
<1> SUFFICES ASSUME NodeInv, [Next]_vars,
                    ~api'.exists \/ (~api'.deleting /\ ~api'.finalizer),
                    ~gaveUp'
             PROVE  Loose' = {}
  BY DEF Owned
<1>0. TypeInv /\ Guarded /\ Visible /\ Purged /\ Owned
  BY DEF NodeInv
<1>1. ~gaveUp
  BY DEF Next, Worker, Reconciling, Beat, Environment, Read, AddFinalizer, ListNodes, CreateNode,
         CreateNodeFails, Exhausted, Connect, ConnectFails, DeleteNode,
         DeleteNodeFails, UpdateNode, ClearRetries, UpdateStatus,
         SetReady, ReturnError, Return, Release, ListForDeletion, Purge,
         CleanupFailed, Heartbeat, HeartbeatStatus, SetEvent,
         ConfigMapEvent, UserEdit, UserDelete, Crash, vars
<1>2. CASE ~api.exists \/ (~api.deleting /\ ~api.finalizer)
  <2>1. Loose = {}
    BY <1>0, <1>1, <1>2 DEF Owned
  <2>2. Loose' \ Loose = {}
    BY <1>0, <1>2, LooseGrows
  <2> QED BY <2>1, <2>2
<1>3. CASE api.exists /\ (api.deleting \/ api.finalizer)
  <2>1. pc = "release"
    BY <1>0, <1>3, GoesByRelease
  <2>2. Loose = {}
    BY <1>0, <1>1, <2>1 DEF Purged, Purging
  <2>3. Loose' \ Loose = {}
    BY <1>0, <2>1, LooseGrows
  <2> QED BY <2>2, <2>3
<1> QED BY <1>2, <1>3

(* Every step keeps the invariant.                                          *)
LEMMA NextNodeInv == NodeInv /\ [Next]_vars => NodeInv'
  BY NextType, NextGuarded, NextVisible, NextPurged, NextOwned DEF NodeInv

(* When the finalizer is gone, every ConfigMap that is left has its owner   *)
(* reference, although updateE2Nodes writes ConfigMaps without one and      *)
(* handleDeletion deletes only what a stale cache lists; except where       *)
(* handleDeletion let go on purpose.                                        *)
THEOREM NothingOrphanedTheorem == Spec => []NothingOrphaned
<1>1. Spec => []NodeInv
  BY InitType, InitGuarded, InitVisible, InitPurged, NextNodeInv, PTL
     DEF Spec, NodeInv
<1>2. NodeInv => NothingOrphaned
  BY DEF NodeInv, Owned, NothingOrphaned, Loose, Present
<1> QED BY <1>1, <1>2, PTL
=============================================================================
