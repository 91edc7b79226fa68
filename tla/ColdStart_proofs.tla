--------------------------- MODULE ColdStart_proofs ---------------------------
(***************************************************************************)
(* The start of a worker process, for any number of threads: what is       *)
(* published is patched, and a start that is over stays over.              *)
(***************************************************************************)
EXTENDS ColdStart, FiniteSetTheorems, TLAPS

-----------------------------------------------------------------------------
(* How many objects there can be. *)

Places == OpenStackSteps \cup VMwareSteps \cup {"idle", "call", "connect", "done"}

\* What a thread may have constructed by the time it is at place s with c calls made.
Charge(s, c) ==
    CASE s \in {"idle", "factory", "newFactory", "client", "pool", "newPool"} -> 0
      [] s \in {"getFactory", "getPool", "newClient"}                         -> 1
      [] s \in {"create", "construct"}                                        -> 1 + c
      [] s \in {"patch", "getConnection", "call"}                             -> 2 + c
      [] s \in {"getClient", "connect"}                                       -> 2
      [] s = "done"                                                           -> 2 + MaxCalls
Spent(r) == Charge(at[r], calls[r])

\* One token for every object a thread may have constructed.
Tokens == {t \in Callers \X (1 .. 2 + MaxCalls) : t[2] <= Spent(t[1])}

Counted ==
    /\ made \in Nat /\ at \in [Callers -> Places] /\ calls \in [Callers -> 0..MaxCalls]
    /\ \A r \in Callers : at[r] # "done" => calls[r] < MaxCalls
    /\ made <= Cardinality(Tokens)

-----------------------------------------------------------------------------
(* What holds of the shared names. *)

Typed ==
    /\ ColdTypeOK
    /\ used \in [Callers -> SUBSET Objects] /\ warm \in [Callers -> Objects]

\* None holds nothing, and a thread never looks into None: once a name is bound it
\* is never None again.
Bound ==
    /\ connection[0] = 0 /\ poolOf[0] = 0
    /\ \A r \in Callers :
          /\ at[r] = "getFactory" => openstack # 0
          /\ at[r] \in {"create", "construct", "patch", "getConnection", "call"} => factory[r] # 0
          /\ at[r] \in {"patch", "getConnection", "call"} => connection[factory[r]] # 0

\* A connection without the pooled session has its patch still to come.
PatchComes ==
    \A f \in Objects : connection[f] # 0 /\ connection[f] \notin patched =>
        \E r \in Callers : at[r] = "patch" /\ factory[r] = f

\* The start of a chain is over: its name is bound and no thread is on its way to
\* binding it again.
OpenStackOver ==
    /\ openstack # 0 /\ connection[openstack] # 0
    /\ \A q \in Callers :
          /\ at[q] \notin {"newFactory", "construct"}
          /\ at[q] = "create" => connection[factory[q]] # 0
VMwareOver ==
    /\ vmware # 0 /\ poolOf[vmware] # 0
    /\ \A q \in Callers : at[q] \notin {"pool", "newPool", "getPool", "newClient"}

\* What a thread that began after the start works with.
WarmOpenStack(r) ==
    /\ OpenStackOver /\ connection[openstack] = warm[r]
    /\ at[r] \in {"create", "getConnection", "patch", "call"} => factory[r] = openstack
    /\ at[r] = "call" => value[r] = warm[r]
WarmVMware(r) ==
    /\ VMwareOver /\ poolOf[vmware] = warm[r]
    /\ at[r] = "connect" => factory[r] = vmware
Warm(r) ==
    warm[r] # 0 =>
        /\ used[r] \subseteq {warm[r]} /\ at[r] # "idle"
        /\ at[r] \in OpenStackSteps \cup {"call"} => WarmOpenStack(r)
        /\ at[r] \in VMwareSteps \cup {"connect"} => WarmVMware(r)
Fresh(r) == at[r] = "idle" => used[r] = {} /\ warm[r] = 0

IInv == Typed /\ Counted /\ Bound /\ PatchComes /\ \A r \in Callers : Warm(r) /\ Fresh(r)

-----------------------------------------------------------------------------
(* The count. *)

\* The charges, place by place.
LEMMA ChargeTable ==
    \A c \in 0..MaxCalls :
        /\ Charge("idle", c) = 0 /\ Charge("factory", c) = 0 /\ Charge("newFactory", c) = 0
        /\ Charge("client", c) = 0 /\ Charge("pool", c) = 0 /\ Charge("newPool", c) = 0
        /\ Charge("getFactory", c) = 1 /\ Charge("getPool", c) = 1 /\ Charge("newClient", c) = 1
        /\ Charge("create", c) = 1 + c /\ Charge("construct", c) = 1 + c
        /\ Charge("patch", c) = 2 + c /\ Charge("getConnection", c) = 2 + c
        /\ Charge("call", c) = 2 + c
        /\ Charge("getClient", c) = 2 /\ Charge("connect", c) = 2
        /\ Charge("done", c) = 2 + MaxCalls
  BY MaxCallsAssumption DEF Charge

\* No charge is above the limit of a thread.
LEMMA ChargeRange == \A s \in Places, c \in 0..MaxCalls : Charge(s, c) \in 0 .. 2 + MaxCalls
  <1>1. \A c \in 0..MaxCalls : c \in Nat /\ c <= MaxCalls
    BY MaxCallsAssumption
  <1> QED
    BY <1>1, ChargeTable, MaxCallsAssumption DEF Places, OpenStackSteps, VMwareSteps

\* Where a thread goes from where, when it constructs nothing and when it does.
PlainMoves ==
    {<<"idle", "factory">>, <<"factory", "newFactory">>, <<"factory", "getFactory">>,
     <<"getFactory", "create">>, <<"create", "construct">>, <<"create", "getConnection">>,
     <<"create", "done">>, <<"construct", "done">>, <<"patch", "getConnection">>,
     <<"getConnection", "call">>, <<"idle", "client">>, <<"client", "pool">>,
     <<"client", "getClient">>, <<"pool", "newPool">>, <<"pool", "getPool">>,
     <<"getPool", "newClient">>, <<"getClient", "connect">>}
MakingMoves ==
    {<<"newFactory", "getFactory">>, <<"construct", "patch">>, <<"newPool", "getPool">>,
     <<"newClient", "getClient">>}
CallMoves ==
    {<<"call", "create">>, <<"call", "done">>, <<"connect", "connect">>, <<"connect", "done">>}

Move(r, m) == at[r] = m[1] /\ at' = [at EXCEPT ![r] = m[2]]
Moved(r) ==
    \/ \E m \in PlainMoves : Move(r, m) /\ UNCHANGED <<made, calls>>
    \/ \E m \in MakingMoves : Move(r, m) /\ made' = made + 1 /\ UNCHANGED calls
    \/ \E m \in CallMoves : /\ Move(r, m) /\ UNCHANGED made
                            /\ calls' = [calls EXCEPT ![r] = @ + 1]
                            /\ m[2] # "done" => calls'[r] < MaxCalls

\* Every step of a thread is one of these.
LEMMA StepMoves ==
    ASSUME NEW r \in Callers, OpenStackThread(r) \/ VMwareThread(r)
    PROVE  Moved(r)
  <1>1. CASE \/ BeginOpenStack(r) \/ FindFactory(r) \/ GetFactory(r) \/ Patch(r) \/ GetConnection(r)
    BY <1>1 DEF BeginOpenStack, FindFactory, GetFactory, Patch, GetConnection, moveTo, locals, Move,
                PlainMoves, Moved
  <1>2. CASE FindConnection(r) \/ Construct(r)
    BY <1>2 DEF FindConnection, Construct, moveTo, locals, Move, PlainMoves, MakingMoves, Moved
  <1>3. CASE NewFactory(r) \/ NewPool(r) \/ NewClient(r)
    BY <1>3 DEF NewFactory, NewPool, NewClient, moveTo, locals, Move, MakingMoves, Moved
  <1>4. CASE BeginVMware(r) \/ FindClient(r) \/ FindPool(r) \/ GetPool(r) \/ GetClient(r)
    BY <1>4 DEF BeginVMware, FindClient, FindPool, GetPool, GetClient, moveTo, locals, Move,
                PlainMoves, Moved
  <1>5. CASE Call(r) \/ ConnectVMware(r)
    BY <1>5 DEF Call, ConnectVMware, moveTo, Move, CallMoves, Moved
  <1> QED
    BY <1>1, <1>2, <1>3, <1>4, <1>5 DEF OpenStackThread, VMwareThread

\* No move gives anything back, and the ones that construct cost something.
LEMMA MoveCharge ==
    /\ \A m \in PlainMoves, c \in 0..MaxCalls : Charge(m[1], c) <= Charge(m[2], c)
    /\ \A m \in MakingMoves, c \in 0..MaxCalls : Charge(m[1], c) + 1 <= Charge(m[2], c)
    /\ \A m \in CallMoves, c, d \in 0..MaxCalls :
          d = c + 1 => Charge(m[1], c) <= Charge(m[2], d)
    /\ \A m \in PlainMoves \cup MakingMoves \cup CallMoves :
          m[1] \in Places /\ m[1] # "done" /\ m[2] \in Places
  <1>0. MaxCalls \in Nat /\ \A c \in 0..MaxCalls : c \in Nat /\ c <= MaxCalls
    BY MaxCallsAssumption
  <1>1. \A m \in PlainMoves, c \in 0..MaxCalls : Charge(m[1], c) <= Charge(m[2], c)
    BY <1>0, ChargeTable DEF PlainMoves
  <1>2. \A m \in MakingMoves, c \in 0..MaxCalls : Charge(m[1], c) + 1 <= Charge(m[2], c)
    BY <1>0, ChargeTable DEF MakingMoves
  <1>3. \A m \in CallMoves, c, d \in 0..MaxCalls : d = c + 1 => Charge(m[1], c) <= Charge(m[2], d)
    BY <1>0, ChargeTable DEF CallMoves
  <1>4. \A m \in PlainMoves \cup MakingMoves \cup CallMoves :
          m[1] \in Places /\ m[1] # "done" /\ m[2] \in Places
    BY DEF PlainMoves, MakingMoves, CallMoves, Places, OpenStackSteps, VMwareSteps
  <1> QED
    BY <1>1, <1>2, <1>3, <1>4

\* A step of thread r: it gives nothing back, and spends when it constructs.
Charged(r) ==
    /\ \A q \in Callers \ {r} : at'[q] = at[q] /\ calls'[q] = calls[q]
    /\ at' \in [Callers -> Places] /\ calls' \in [Callers -> 0..MaxCalls]
    /\ at'[r] # "done" => calls'[r] < MaxCalls
    /\ \/ made' = made /\ Spent(r) <= Spent(r)'
       \/ made' = made + 1 /\ Spent(r) + 1 <= Spent(r)'

\* Every step is such a step.
LEMMA StepCharged ==
    ASSUME Counted, NEW r \in Callers, Moved(r)
    PROVE  Charged(r)
  <1> DEFINE c == calls[r]
  <1>1. /\ at \in [Callers -> Places] /\ calls \in [Callers -> 0..MaxCalls] /\ c \in 0..MaxCalls
        /\ at[r] # "done" => c < MaxCalls
    BY DEF Counted
  <1>2. MaxCalls \in Nat /\ c \in Nat
    BY <1>1, MaxCallsAssumption
  <1>3. ASSUME NEW m \in PlainMoves, Move(r, m), UNCHANGED <<made, calls>> PROVE Charged(r)
    <2>1. at'[r] = m[2] /\ m[2] \in Places /\ at[r] = m[1] /\ m[1] # "done"
      BY <1>1, <1>3, MoveCharge DEF Move
    <2>2. Charge(m[1], c) <= Charge(m[2], c)
      BY <1>1, MoveCharge
    <2>3. Spent(r) <= Spent(r)'
      BY <1>3, <2>1, <2>2 DEF Spent
    <2> QED
      BY <1>1, <1>3, <2>1, <2>3 DEF Move, Charged
  <1>4. ASSUME NEW m \in MakingMoves, Move(r, m), made' = made + 1, UNCHANGED calls PROVE Charged(r)
    <2>1. at'[r] = m[2] /\ m[2] \in Places /\ at[r] = m[1] /\ m[1] # "done"
      BY <1>1, <1>4, MoveCharge DEF Move
    <2>2. Charge(m[1], c) + 1 <= Charge(m[2], c)
      BY <1>1, MoveCharge
    <2>3. Spent(r) + 1 <= Spent(r)'
      BY <1>4, <2>1, <2>2 DEF Spent
    <2> QED
      BY <1>1, <1>4, <2>1, <2>3 DEF Move, Charged
  <1>5. ASSUME NEW m \in CallMoves, Move(r, m), UNCHANGED made,
               calls' = [calls EXCEPT ![r] = @ + 1], m[2] # "done" => calls'[r] < MaxCalls
        PROVE  Charged(r)
    <2>1. at'[r] = m[2] /\ m[2] \in Places /\ at[r] = m[1] /\ m[1] # "done"
      BY <1>1, <1>5, MoveCharge DEF Move
    <2>2. PICK d : d = c + 1
      OBVIOUS
    <2>3. d \in 0..MaxCalls /\ calls'[r] = d /\ calls' = [calls EXCEPT ![r] = d]
      BY <1>1, <1>2, <1>5, <2>1, <2>2
    <2>4. Charge(m[1], c) <= Charge(m[2], d)
      BY <1>1, <2>2, <2>3, MoveCharge
    <2>5. Spent(r) <= Spent(r)'
      BY <2>1, <2>3, <2>4 DEF Spent
    <2> QED
      BY <1>1, <1>5, <2>1, <2>3, <2>5 DEF Move, Charged
  <1> QED
    BY <1>3, <1>4, <1>5 DEF Moved

\* The tokens are no more than Objects allows for.
LEMMA TokensBound ==
    ASSUME NEW T, T \subseteq Callers \X (1 .. 2 + MaxCalls)
    PROVE  /\ IsFiniteSet(T) /\ Cardinality(T) \in Nat
           /\ Cardinality(T) <= Cardinality(Callers) * (2 + MaxCalls)
           /\ Cardinality(Callers) * (2 + MaxCalls) \in Nat
  <1> DEFINE n == 2 + MaxCalls
             P == Callers \X (1..n)
  <1>1. n \in Nat /\ n >= 1 /\ 1 \in Int /\ n \in Int
    BY MaxCallsAssumption
  <1>4. T \in SUBSET P
    OBVIOUS
  <1> HIDE DEF n
  <1>2. IsFiniteSet(1..n) /\ Cardinality(1..n) = n
    <2>1. IsFiniteSet(1..n) /\ Cardinality(1..n) = (IF 1 > n THEN 0 ELSE n - 1 + 1)
      BY ONLY <1>1, FS_Interval
    <2> QED
      BY <1>1, <2>1
  <1>3. IsFiniteSet(P) /\ Cardinality(P) = Cardinality(Callers) * n
    BY <1>2, CallersAssumption, FS_Product
  <1>5. IsFiniteSet(T) /\ Cardinality(T) <= Cardinality(P)
    BY <1>3, <1>4, FS_Subset
  <1>6. Cardinality(T) \in Nat /\ Cardinality(P) \in Nat
    BY <1>3, <1>5, FS_CardinalityType
  <1> QED
    BY <1>3, <1>5, <1>6 DEF n

\* A thread that constructs an object pays for it with a token of its own.
LEMMA CountKept ==
    ASSUME Counted, NEW r \in Callers, Charged(r)
    PROVE  Counted'
  <1>1. /\ made \in Nat /\ at \in [Callers -> Places] /\ calls \in [Callers -> 0..MaxCalls]
        /\ made <= Cardinality(Tokens)
    BY DEF Counted
  <1>2. \A q \in Callers : /\ Spent(q) \in 0 .. 2 + MaxCalls /\ Spent(q)' \in 0 .. 2 + MaxCalls
                           /\ (q # r => Spent(q)' = Spent(q))
    BY <1>1, ChargeRange DEF Charged, Spent
  <1>i. MaxCalls \in Nat /\ Spent(r) \in Int /\ Spent(r)' \in Int
    BY <1>2, MaxCallsAssumption
  <1>3. Spent(r) <= Spent(r)'
    BY <1>i DEF Charged
  <1>4. Tokens \subseteq Tokens'
    <2> SUFFICES ASSUME NEW t \in Callers \X (1 .. 2 + MaxCalls), t[2] <= Spent(t[1])
                 PROVE  t[2] <= Spent(t[1])'
      BY DEF Tokens
    <2>1. t[1] \in Callers /\ t[2] \in Int
      OBVIOUS
    <2>2. CASE t[1] = r
      BY <1>3, <1>i, <2>1, <2>2
    <2>3. CASE t[1] # r
      BY <1>2, <2>1, <2>3
    <2> QED
      BY <2>2, <2>3
  <1>5. IsFiniteSet(Tokens) /\ Cardinality(Tokens) \in Nat
    BY TokensBound DEF Tokens
  <1>6. IsFiniteSet(Tokens') /\ Cardinality(Tokens') \in Nat
    BY TokensBound DEF Tokens
  <1>7. Cardinality(Tokens) <= Cardinality(Tokens')
    BY <1>4, <1>6, FS_Subset
  <1>8. CASE made' = made
    BY <1>1, <1>5, <1>6, <1>7, <1>8 DEF Charged, Counted
  <1>9. CASE made' = made + 1 /\ Spent(r) + 1 <= Spent(r)'
    <2>1. PICK k : k = Spent(r) + 1
      OBVIOUS
    <2>2. k \in 1 .. 2 + MaxCalls /\ k <= Spent(r)' /\ ~(k <= Spent(r))
      BY <1>2, <1>9, <1>i, <2>1
    <2> DEFINE x == <<r, k>>
    <2>3. x \in Tokens' /\ x \notin Tokens
      BY <2>2 DEF Tokens
    <2> HIDE DEF x
    <2>4. /\ IsFiniteSet(Tokens \cup {x})
          /\ Cardinality(Tokens \cup {x}) = Cardinality(Tokens) + 1
      BY <1>5, <2>3, FS_AddElement
    <2>5. Tokens \cup {x} \in SUBSET Tokens'
      BY <1>4, <2>3
    <2>6. Cardinality(Tokens \cup {x}) <= Cardinality(Tokens')
      BY <1>6, <2>5, FS_Subset
    <2>7. made' <= Cardinality(Tokens')
      BY <1>1, <1>5, <1>6, <1>9, <2>4, <2>6
    <2> QED
      BY <1>1, <1>9, <2>7 DEF Charged, Counted
  <1> QED
    BY <1>8, <1>9 DEF Charged

\* So every object has a number in Objects.
LEMMA CountFits ==
    ASSUME NEW T, T \subseteq Callers \X (1 .. 2 + MaxCalls), NEW n \in Nat, n <= Cardinality(T)
    PROVE  n \in Objects
  <1> DEFINE k == Cardinality(Callers) * (2 + MaxCalls)
  <1>1. Cardinality(T) \in Nat /\ Cardinality(T) <= k /\ k \in Nat
    BY TokensBound
  <1>2. Objects = 0..k
    BY DEF Objects
  <1> HIDE DEF k
  <1> QED
    BY <1>1, <1>2

\* And None has.
LEMMA NoneFits == 0 \in Objects
  <1>1. {} \subseteq Callers \X (1 .. 2 + MaxCalls)
    OBVIOUS
  <1>2. Cardinality({}) \in Nat
    BY <1>1, TokensBound
  <1> QED
    BY <1>1, <1>2, CountFits

-----------------------------------------------------------------------------
(* The steps of a thread. *)

\* Nothing was made and no thread has begun.
LEMMA InitIInv == ColdInit => IInv
  <1> SUFFICES ASSUME ColdInit PROVE IInv
    OBVIOUS
  <1>1. Counted
    <2>1. Cardinality(Tokens) \in Nat
      BY TokensBound DEF Tokens
    <2>2. 0 \in 0..MaxCalls /\ 0 < MaxCalls
      BY MaxCallsAssumption
    <2> QED
      BY <2>1, <2>2 DEF ColdInit, Counted, Places
  <1>2. 0 \in Objects
    BY NoneFits
  <1>3. Typed
    BY <1>2, MaxCallsAssumption DEF ColdInit, Typed, ColdTypeOK
  <1>4. Bound /\ PatchComes
    BY <1>2 DEF ColdInit, Bound, PatchComes
  <1>5. ASSUME NEW r \in Callers PROVE Warm(r) /\ Fresh(r)
    BY DEF ColdInit, Warm, Fresh
  <1> QED
    BY <1>1, <1>3, <1>4, <1>5 DEF IInv

\* The types follow from the count.
LEMMA TypesKept ==
    ASSUME IInv, NEW r \in Callers, OpenStackThread(r) \/ VMwareThread(r), Counted'
    PROVE  Typed'
  <1>1. Typed /\ made' \in Objects
    <2>1. Tokens' \subseteq Callers \X (1 .. 2 + MaxCalls)
      BY DEF Tokens
    <2> QED
      BY <2>1, CountFits DEF IInv, Counted
  <1>2. at' \in [Callers -> Places] /\ calls' \in [Callers -> 0..MaxCalls]
    BY DEF Counted
  <1>3. 0 \in Objects
    BY NoneFits
  <1>4. CASE OpenStackThread(r)
    <2>1. /\ openstack' \in Objects /\ vmware' \in Objects /\ vmwarePool' \in Objects
          /\ connection' \in [Objects -> Objects] /\ poolOf' \in [Objects -> Objects]
      BY <1>1, <1>4 DEF Typed, ColdTypeOK, OpenStackThread, BeginOpenStack, FindFactory, NewFactory,
         GetFactory, FindConnection, Construct, Patch, GetConnection, Call, globals, locals
    <2>2. /\ factory' \in [Callers -> Objects] /\ value' \in [Callers -> Objects]
          /\ patched' \subseteq Objects
      BY <1>1, <1>4 DEF Typed, ColdTypeOK, OpenStackThread, BeginOpenStack, FindFactory, NewFactory,
         GetFactory, FindConnection, Construct, Patch, GetConnection, Call, globals, locals, patch
    <2>3. used' \in [Callers -> SUBSET Objects] /\ warm' \in [Callers -> Objects]
      BY <1>1, <1>3, <1>4 DEF Typed, ColdTypeOK, OpenStackThread, BeginOpenStack, FindFactory, NewFactory,
         GetFactory, FindConnection, Construct, Patch, GetConnection, Call, globals, locals
    <2> QED
      BY <1>1, <1>2, <2>1, <2>2, <2>3 DEF Typed, ColdTypeOK, Places
  <1>5. CASE VMwareThread(r)
    <2>1. /\ openstack' \in Objects /\ vmware' \in Objects /\ vmwarePool' \in Objects
          /\ connection' \in [Objects -> Objects] /\ poolOf' \in [Objects -> Objects]
      BY <1>1, <1>5 DEF Typed, ColdTypeOK, VMwareThread, BeginVMware, FindClient, FindPool, NewPool,
         GetPool, NewClient, GetClient, ConnectVMware, globals, locals
    <2>2. /\ factory' \in [Callers -> Objects] /\ value' \in [Callers -> Objects]
          /\ patched' \subseteq Objects
      BY <1>1, <1>5 DEF Typed, ColdTypeOK, VMwareThread, BeginVMware, FindClient, FindPool, NewPool,
         GetPool, NewClient, GetClient, ConnectVMware, globals, locals
    <2>3. used' \in [Callers -> SUBSET Objects] /\ warm' \in [Callers -> Objects]
      BY <1>1, <1>3, <1>5 DEF Typed, ColdTypeOK, VMwareThread, BeginVMware, FindClient, FindPool, NewPool,
         GetPool, NewClient, GetClient, ConnectVMware, globals, locals
    <2> QED
      BY <1>1, <1>2, <2>1, <2>2, <2>3 DEF Typed, ColdTypeOK, Places
  <1> QED
    BY <1>4, <1>5

\* The other threads stay where they are.
OthersStay(r) ==
    \A q \in Callers \ {r} :
        /\ at'[q] = at[q] /\ factory'[q] = factory[q] /\ value'[q] = value[q]
        /\ used'[q] = used[q] /\ warm'[q] = warm[q]

\* Every step is one thread's.
LEMMA StepOthers ==
    ASSUME Typed, NEW r \in Callers, OpenStackThread(r) \/ VMwareThread(r)
    PROVE  OthersStay(r)
  <1>1. CASE OpenStackThread(r)
    BY <1>1 DEF Typed, ColdTypeOK, OpenStackThread, BeginOpenStack, FindFactory, NewFactory, GetFactory,
       FindConnection, Construct, Patch, GetConnection, Call, globals, locals, moveTo, OthersStay
  <1>2. CASE VMwareThread(r)
    BY <1>2 DEF Typed, ColdTypeOK, VMwareThread, BeginVMware, FindClient, FindPool, NewPool, GetPool,
       NewClient, GetClient, ConnectVMware, globals, locals, moveTo, OthersStay
  <1> QED
    BY <1>1, <1>2

\* The names, as a step may bind them: never to None again.
LEMMA NamesGrow ==
    ASSUME IInv, NEW r \in Callers, OpenStackThread(r) \/ VMwareThread(r)
    PROVE  /\ openstack # 0 => openstack' # 0
           /\ \A f \in Objects : connection[f] # 0 => connection'[f] # 0
           /\ connection'[0] = 0 /\ poolOf'[0] = 0
  <1>1. made + 1 # 0 /\ Typed /\ Bound /\ 0 \in Objects
    BY NoneFits DEF IInv, Counted
  <1>2. CASE NewFactory(r)
    BY <1>1, <1>2 DEF NewFactory, Bound
  <1>3. CASE Construct(r)
    BY <1>1, <1>3 DEF Construct, Typed, ColdTypeOK, Bound
  <1>4. CASE NewClient(r)
    BY <1>1, <1>4 DEF NewClient, Typed, ColdTypeOK, Bound
  <1>5. CASE NewPool(r)
    BY <1>1, <1>5 DEF NewPool, Bound
  <1>6. CASE \/ BeginOpenStack(r) \/ FindFactory(r) \/ GetFactory(r) \/ FindConnection(r)
             \/ Patch(r) \/ GetConnection(r) \/ Call(r)
    BY <1>1, <1>6 DEF BeginOpenStack, FindFactory, GetFactory, FindConnection, Patch, GetConnection,
       Call, globals, Bound
  <1>7. CASE \/ BeginVMware(r) \/ FindClient(r) \/ FindPool(r) \/ GetPool(r) \/ GetClient(r)
             \/ ConnectVMware(r)
    BY <1>1, <1>7 DEF BeginVMware, FindClient, FindPool, GetPool, GetClient, ConnectVMware, globals, Bound
  <1> QED
    BY <1>2, <1>3, <1>4, <1>5, <1>6, <1>7 DEF OpenStackThread, VMwareThread

\* No thread looks into None.
LEMMA BoundKept ==
    ASSUME IInv, NEW r \in Callers, OpenStackThread(r) \/ VMwareThread(r)
    PROVE  Bound'
  <1>1. Typed /\ Bound /\ OthersStay(r)
    BY StepOthers DEF IInv
  <1>2. /\ connection'[0] = 0 /\ poolOf'[0] = 0
        /\ openstack # 0 => openstack' # 0
        /\ \A f \in Objects : connection[f] # 0 => connection'[f] # 0
    BY NamesGrow
  <1>3. ASSUME NEW q \in Callers \ {r}
        PROVE  /\ at'[q] = "getFactory" => openstack' # 0
               /\ at'[q] \in {"create", "construct", "patch", "getConnection", "call"}
                     => factory'[q] # 0
               /\ at'[q] \in {"patch", "getConnection", "call"} => connection'[factory'[q]] # 0
    BY <1>1, <1>2 DEF Bound, OthersStay, Typed, ColdTypeOK
  <1> DEFINE Own == /\ at'[r] = "getFactory" => openstack' # 0
                    /\ at'[r] \in {"create", "construct", "patch", "getConnection", "call"}
                          => factory'[r] # 0
                    /\ at'[r] \in {"patch", "getConnection", "call"} => connection'[factory'[r]] # 0
  <1>4. Own
    <2>1. CASE BeginOpenStack(r) \/ FindFactory(r)
      BY <1>1, <2>1 DEF BeginOpenStack, FindFactory, moveTo, Typed, ColdTypeOK, globals
    <2>2. CASE NewFactory(r)
      <3>1. made + 1 # 0
        BY DEF IInv, Counted
      <3> QED
        BY <1>1, <2>2, <3>1 DEF NewFactory, moveTo, Typed, ColdTypeOK
    <2>3. CASE GetFactory(r)
      BY <1>1, <2>3 DEF GetFactory, moveTo, Typed, ColdTypeOK, globals, Bound
    <2>4. CASE FindConnection(r)
      BY <1>1, <2>4 DEF FindConnection, cached, moveTo, Typed, ColdTypeOK, globals, locals, Bound
    <2>5. CASE Construct(r)
      <3>1. made + 1 # 0
        BY DEF IInv, Counted
      <3> QED
        BY <1>1, <2>5, <3>1 DEF Construct, moveTo, Typed, ColdTypeOK, locals, Bound
    <2>6. CASE Patch(r) \/ GetConnection(r) \/ Call(r)
      BY <1>1, <2>6 DEF Patch, GetConnection, Call, moveTo, Typed, ColdTypeOK, globals, locals, Bound
    <2>7. CASE VMwareThread(r)
      BY <1>1, <2>7 DEF VMwareThread, BeginVMware, FindClient, FindPool, NewPool, GetPool, NewClient,
         GetClient, ConnectVMware, moveTo, Typed, ColdTypeOK
    <2> QED
      BY <2>1, <2>2, <2>3, <2>4, <2>5, <2>6, <2>7 DEF OpenStackThread
  <1> QED
    BY <1>2, <1>3, <1>4 DEF Bound

\* A connection that is published unpatched is patched by the thread that published
\* it, or by one that published over it.
LEMMA PatchKept ==
    ASSUME IInv, NEW r \in Callers, OpenStackThread(r) \/ VMwareThread(r)
    PROVE  PatchComes'
  <1>1. Typed /\ PatchComes /\ OthersStay(r)
    BY StepOthers DEF IInv
  <1>2. CASE Construct(r) /\ made' = made + 1
    <2> SUFFICES ASSUME NEW f \in Objects, connection'[f] # 0, connection'[f] \notin patched'
                 PROVE  \E q \in Callers : at'[q] = "patch" /\ factory'[q] = f
      BY DEF PatchComes
    <2>1. /\ at[r] = "construct" /\ at'[r] = "patch" /\ factory' = factory /\ patched' = patched
          /\ f # factory[r] => connection'[f] = connection[f]
      <3>1. made' # made
        BY <1>2 DEF IInv, Counted
      <3> QED
        BY <1>1, <1>2, <3>1 DEF Construct, moveTo, Typed, ColdTypeOK, locals
    <2>2. CASE f = factory[r]
      BY <2>1, <2>2
    <2>3. CASE f # factory[r]
      <3>1. PICK q \in Callers : at[q] = "patch" /\ factory[q] = f
        BY <1>1, <2>1, <2>3 DEF PatchComes
      <3> QED
        BY <1>1, <2>1, <3>1 DEF OthersStay
    <2> QED
      BY <2>2, <2>3
  <1>3. CASE Patch(r)
    <2> SUFFICES ASSUME NEW f \in Objects, connection'[f] # 0, connection'[f] \notin patched'
                 PROVE  \E q \in Callers : at'[q] = "patch" /\ factory'[q] = f
      BY DEF PatchComes
    <2>1. /\ factory' = factory /\ connection' = connection
          /\ patched' = patched \cup {connection[factory[r]]}
      BY <1>3 DEF Patch, patch, locals, globals
    <2>2. PICK q \in Callers : at[q] = "patch" /\ factory[q] = f
      BY <1>1, <2>1 DEF PatchComes
    <2>3. q # r
      BY <2>1, <2>2
    <2> QED
      BY <1>1, <2>2, <2>3 DEF OthersStay
  <1>4. CASE ~(Construct(r) /\ made' = made + 1) /\ ~Patch(r)
    <2>1. UNCHANGED <<connection, patched>>
      BY <1>4 DEF OpenStackThread, BeginOpenStack, FindFactory, NewFactory, GetFactory,
         FindConnection, Construct, GetConnection, Call, VMwareThread, BeginVMware, FindClient,
         FindPool, NewPool, GetPool, NewClient, GetClient, ConnectVMware, globals
    <2>2. at[r] # "patch"
      BY <1>4 DEF OpenStackThread, BeginOpenStack, FindFactory, NewFactory, GetFactory,
         FindConnection, Construct, GetConnection, Call, VMwareThread, BeginVMware, FindClient,
         FindPool, NewPool, GetPool, NewClient, GetClient, ConnectVMware
    <2> SUFFICES ASSUME NEW f \in Objects, connection'[f] # 0, connection'[f] \notin patched'
                 PROVE  \E q \in Callers : at'[q] = "patch" /\ factory'[q] = f
      BY DEF PatchComes
    <2>3. PICK q \in Callers : at[q] = "patch" /\ factory[q] = f
      BY <1>1, <2>1 DEF PatchComes
    <2> QED
      BY <1>1, <2>2, <2>3 DEF OthersStay
  <1> QED
    BY <1>2, <1>3, <1>4

\* A start that is over stays over.
LEMMA StartStaysOver ==
    ASSUME IInv, NEW r \in Callers, OpenStackThread(r) \/ VMwareThread(r)
    PROVE  /\ OpenStackOver => OpenStackOver' /\ UNCHANGED <<openstack, connection>>
           /\ VMwareOver => VMwareOver' /\ UNCHANGED <<vmware, poolOf>>
  <1>1. Typed /\ Bound /\ OthersStay(r)
    BY StepOthers DEF IInv
  <1>2. ASSUME OpenStackOver PROVE OpenStackOver' /\ UNCHANGED <<openstack, connection>>
    <2>1. UNCHANGED <<openstack, connection>>
      BY <1>2 DEF OpenStackOver, OpenStackThread, BeginOpenStack, FindFactory, NewFactory, GetFactory,
         FindConnection, Construct, Patch, GetConnection, Call, VMwareThread, BeginVMware, FindClient,
         FindPool, NewPool, GetPool, NewClient, GetClient, ConnectVMware, globals
    <2>2. /\ at'[r] \notin {"newFactory", "construct"}
          /\ at'[r] = "create" => connection'[factory'[r]] # 0
      <3>1. CASE BeginOpenStack(r) \/ FindFactory(r) \/ GetFactory(r)
        BY <1>1, <1>2, <2>1, <3>1 DEF OpenStackOver, BeginOpenStack, FindFactory, GetFactory, moveTo,
           Typed, ColdTypeOK
      <3>2. CASE NewFactory(r) \/ Construct(r)
        BY <1>2, <3>2 DEF OpenStackOver, NewFactory, Construct
      <3>3. CASE FindConnection(r) \/ Patch(r) \/ GetConnection(r)
        BY <1>1, <1>2, <3>3 DEF OpenStackOver, FindConnection, cached, Patch, GetConnection, moveTo,
           Typed, ColdTypeOK
      <3>4. CASE Call(r)
        BY <1>1, <2>1, <3>4 DEF Call, moveTo, Typed, ColdTypeOK, Bound
      <3>5. CASE VMwareThread(r)
        BY <1>1, <3>5 DEF VMwareThread, BeginVMware, FindClient, FindPool, NewPool, GetPool, NewClient,
           GetClient, ConnectVMware, moveTo, Typed, ColdTypeOK
      <3> QED
        BY <3>1, <3>2, <3>3, <3>4, <3>5 DEF OpenStackThread
    <2> QED
      BY <1>1, <1>2, <2>1, <2>2 DEF OpenStackOver, OthersStay
  <1>3. ASSUME VMwareOver PROVE VMwareOver' /\ UNCHANGED <<vmware, poolOf>>
    <2>1. UNCHANGED <<vmware, poolOf>>
      BY <1>3 DEF VMwareOver, OpenStackThread, BeginOpenStack, FindFactory, NewFactory, GetFactory,
         FindConnection, Construct, Patch, GetConnection, Call, VMwareThread, BeginVMware, FindClient,
         FindPool, NewPool, GetPool, NewClient, GetClient, ConnectVMware, globals
    <2>2. at'[r] \notin {"pool", "newPool", "getPool", "newClient"}
      <3>1. CASE OpenStackThread(r)
        BY <1>1, <3>1 DEF OpenStackThread, BeginOpenStack, FindFactory, NewFactory, GetFactory,
           FindConnection, Construct, Patch, GetConnection, Call, moveTo, Typed, ColdTypeOK
      <3>2. CASE VMwareThread(r)
        BY <1>1, <1>3, <3>2 DEF VMwareOver, VMwareThread, BeginVMware, FindClient, FindPool, NewPool,
           GetPool, NewClient, GetClient, ConnectVMware, moveTo, Typed, ColdTypeOK
      <3> QED
        BY <3>1, <3>2
    <2> QED
      BY <1>1, <1>3, <2>1, <2>2 DEF VMwareOver, OthersStay
  <1> QED
    BY <1>2, <1>3

\* A thread that began after the start goes on with what it found.
LEMMA WarmKept ==
    ASSUME IInv, NEW r \in Callers, OpenStackThread(r) \/ VMwareThread(r), NEW q \in Callers
    PROVE  Warm(q)' /\ Fresh(q)'
  <1>1. Typed /\ Bound /\ OthersStay(r) /\ Warm(q) /\ Fresh(q)
    BY StepOthers DEF IInv
  <1>2. /\ OpenStackOver => OpenStackOver' /\ UNCHANGED <<openstack, connection>>
        /\ VMwareOver => VMwareOver' /\ UNCHANGED <<vmware, poolOf>>
    BY StartStaysOver
  <1>3. CASE q # r
    <2>1. WarmOpenStack(q) => WarmOpenStack(q)'
      BY <1>1, <1>2, <1>3 DEF WarmOpenStack, OthersStay
    <2>2. WarmVMware(q) => WarmVMware(q)'
      BY <1>1, <1>2, <1>3 DEF WarmVMware, OthersStay
    <2> QED
      BY <1>1, <1>3, <2>1, <2>2 DEF Warm, Fresh, OthersStay
  <1>4. CASE q = r
    <2>0. at'[r] # "idle"
      BY <1>1 DEF OpenStackThread, BeginOpenStack, FindFactory, NewFactory, GetFactory,
         FindConnection, Construct, Patch, GetConnection, Call, VMwareThread, BeginVMware, FindClient,
         FindPool, NewPool, GetPool, NewClient, GetClient, ConnectVMware, moveTo, Typed, ColdTypeOK
    <2>1. CASE BeginOpenStack(r)
      <3>1. /\ at[r] = "idle" /\ at' = [at EXCEPT ![r] = "factory"] /\ used' = used
            /\ UNCHANGED <<openstack, connection, factory>>
            /\ warm'[r] = (IF quiet(OpenStackSteps) THEN connection[openstack] ELSE 0)
        BY <1>1, <2>1 DEF BeginOpenStack, moveTo, Typed, ColdTypeOK, globals, locals
      <3>2. ASSUME warm'[r] # 0 PROVE OpenStackOver' /\ connection[openstack] = warm'[r]
        <4>1. quiet(OpenStackSteps) /\ connection[openstack] = warm'[r] /\ openstack # 0
          BY <1>1, <3>1, <3>2 DEF Bound
        <4>2. \A p \in Callers : at'[p] \notin {"newFactory", "construct", "create"}
          BY <1>1, <3>1, <4>1 DEF quiet, OpenStackSteps, Typed, ColdTypeOK
        <4> QED
          BY <3>1, <3>2, <4>1, <4>2 DEF OpenStackOver
      <3>3. at'[r] = "factory" /\ used'[r] = {}
        BY <1>1, <1>4, <3>1 DEF Typed, ColdTypeOK, Fresh
      <3> QED
        BY <1>4, <3>1, <3>2, <3>3 DEF Warm, Fresh, WarmOpenStack, VMwareSteps
    <2>2. CASE BeginVMware(r)
      <3>1. /\ at[r] = "idle" /\ at' = [at EXCEPT ![r] = "client"] /\ used' = used
            /\ UNCHANGED <<vmware, poolOf, factory>>
            /\ warm'[r] = (IF quiet(VMwareSteps) THEN poolOf[vmware] ELSE 0)
        BY <1>1, <2>2 DEF BeginVMware, moveTo, Typed, ColdTypeOK, globals, locals
      <3>2. ASSUME warm'[r] # 0 PROVE VMwareOver' /\ poolOf[vmware] = warm'[r]
        <4>1. quiet(VMwareSteps) /\ poolOf[vmware] = warm'[r] /\ vmware # 0
          BY <1>1, <3>1, <3>2 DEF Bound
        <4>2. \A p \in Callers : at'[p] \notin {"pool", "newPool", "getPool", "newClient"}
          BY <1>1, <3>1, <4>1 DEF quiet, VMwareSteps, Typed, ColdTypeOK
        <4> QED
          BY <3>1, <3>2, <4>1, <4>2 DEF VMwareOver
      <3>3. at'[r] = "client" /\ used'[r] = {}
        BY <1>1, <1>4, <3>1 DEF Typed, ColdTypeOK, Fresh
      <3> QED
        BY <1>4, <3>1, <3>2, <3>3 DEF Warm, Fresh, WarmVMware, OpenStackSteps
    <2>3. CASE OpenStackThread(r) /\ ~BeginOpenStack(r)
      <3> SUFFICES ASSUME warm'[r] # 0
                   PROVE  used'[r] \subseteq {warm'[r]} /\ (at'[r] # "done" => WarmOpenStack(r)')
                          /\ at'[r] \notin VMwareSteps \cup {"connect"}
        BY <1>4, <2>0 DEF Warm, Fresh, OpenStackSteps
      <3>1. /\ warm' = warm /\ at[r] \in OpenStackSteps \cup {"call"}
            /\ at'[r] \notin VMwareSteps \cup {"connect"}
        BY <1>1, <2>3 DEF OpenStackThread, FindFactory, NewFactory, GetFactory, FindConnection,
           Construct, Patch, GetConnection, Call, moveTo, Typed, ColdTypeOK, OpenStackSteps, VMwareSteps
      <3>2. WarmOpenStack(r) /\ used[r] \subseteq {warm[r]}
        BY <1>1, <1>4, <3>1 DEF Warm
      <3>3. OpenStackOver' /\ UNCHANGED <<openstack, connection>>
        BY <1>2, <3>2 DEF WarmOpenStack
      <3>4. CASE FindFactory(r) \/ GetFactory(r) \/ FindConnection(r) \/ Patch(r)
        BY <1>1, <3>1, <3>2, <3>3, <3>4 DEF WarmOpenStack, FindFactory, GetFactory, FindConnection,
           Patch, moveTo, locals, Typed, ColdTypeOK
      <3>5. CASE NewFactory(r) \/ Construct(r)
        BY <3>2, <3>5 DEF WarmOpenStack, OpenStackOver, NewFactory, Construct
      <3>6. CASE GetConnection(r)
        BY <1>1, <3>1, <3>2, <3>3, <3>6 DEF WarmOpenStack, GetConnection, moveTo, Typed, ColdTypeOK
      <3>7. CASE Call(r)
        BY <1>1, <3>1, <3>2, <3>3, <3>7 DEF WarmOpenStack, Call, moveTo, Typed, ColdTypeOK
      <3> QED
        BY <2>3, <3>1, <3>4, <3>5, <3>6, <3>7 DEF OpenStackThread
    <2>4. CASE VMwareThread(r) /\ ~BeginVMware(r)
      <3> SUFFICES ASSUME warm'[r] # 0
                   PROVE  used'[r] \subseteq {warm'[r]} /\ (at'[r] # "done" => WarmVMware(r)')
                          /\ at'[r] \notin OpenStackSteps \cup {"call"}
        BY <1>4, <2>0 DEF Warm, Fresh, VMwareSteps
      <3>1. /\ warm' = warm /\ at[r] \in VMwareSteps \cup {"connect"}
            /\ at'[r] \notin OpenStackSteps \cup {"call"}
        BY <1>1, <2>4 DEF VMwareThread, FindClient, FindPool, NewPool, GetPool, NewClient, GetClient,
           ConnectVMware, moveTo, Typed, ColdTypeOK, OpenStackSteps, VMwareSteps
      <3>2. WarmVMware(r) /\ used[r] \subseteq {warm[r]}
        BY <1>1, <1>4, <3>1 DEF Warm
      <3>3. VMwareOver' /\ UNCHANGED <<vmware, poolOf>>
        BY <1>2, <3>2 DEF WarmVMware
      <3>4. CASE FindClient(r) \/ GetClient(r)
        BY <1>1, <3>1, <3>2, <3>3, <3>4 DEF WarmVMware, FindClient, GetClient, moveTo, Typed, ColdTypeOK
      <3>5. CASE FindPool(r) \/ NewPool(r) \/ GetPool(r) \/ NewClient(r)
        BY <3>2, <3>5 DEF WarmVMware, VMwareOver, FindPool, NewPool, GetPool, NewClient
      <3>6. CASE ConnectVMware(r)
        BY <1>1, <3>1, <3>2, <3>3, <3>6 DEF WarmVMware, ConnectVMware, moveTo, Typed, ColdTypeOK
      <3> QED
        BY <2>4, <3>1, <3>4, <3>5, <3>6 DEF VMwareThread
    <2> QED
      BY <2>1, <2>2, <2>3, <2>4
  <1> QED
    BY <1>3, <1>4

\* Every step keeps the invariant.
LEMMA NextIInv == IInv /\ [ColdNext]_coldVars => IInv'
  <1>1. ASSUME IInv, NEW r \in Callers, OpenStackThread(r) \/ VMwareThread(r) PROVE IInv'
    <2>1. Counted'
      <3>1. Counted /\ Moved(r)
        BY <1>1, StepMoves DEF IInv
      <3> QED
        BY <3>1, StepCharged, CountKept
    <2>2. Typed'
      BY <1>1, <2>1, TypesKept
    <2>3. Bound' /\ PatchComes'
      BY <1>1, BoundKept, PatchKept
    <2>4. \A q \in Callers : Warm(q)' /\ Fresh(q)'
      BY <1>1, WarmKept
    <2> QED
      BY <2>1, <2>2, <2>3, <2>4 DEF IInv
  <1>2. ASSUME IInv, UNCHANGED coldVars PROVE IInv'
    <2>1. UNCHANGED <<made, openstack, vmware, vmwarePool, connection, poolOf, patched, at, factory, value,
                      calls, used, warm>>
      BY <1>2 DEF coldVars, globals, locals
    <2>2. Typed' /\ Bound' /\ PatchComes'
      BY <1>2, <2>1 DEF IInv, Typed, ColdTypeOK, Bound, PatchComes
    <2>3. Tokens' = Tokens
      BY <2>1 DEF Tokens, Spent
    <2>4. Counted'
      BY <1>2, <2>1, <2>3 DEF IInv, Counted
    <2>5. ASSUME NEW q \in Callers PROVE Warm(q)' /\ Fresh(q)'
      BY <1>2, <2>1 DEF IInv, Warm, Fresh, WarmOpenStack, WarmVMware, OpenStackOver, VMwareOver
    <2> QED
      BY <2>2, <2>4, <2>5 DEF IInv
  <1> QED
    BY <1>1, <1>2 DEF ColdNext

\* The invariant holds throughout.
LEMMA Invariance == ColdSpec => []IInv
  <1>1. ColdInit => IInv
    BY InitIInv
  <1>2. IInv /\ [ColdNext]_coldVars => IInv'
    BY NextIInv
  <1> QED
    BY <1>1, <1>2, PTL DEF ColdSpec

-----------------------------------------------------------------------------
(* What is promised of the start. *)

\* SettledIsPatched, for any number of threads: however they race through
\* get_openstack_factory and create(), once none is inside, every connection a factory
\* holds carries the pooled session.
THEOREM SettledPatched == ColdSpec => []SettledIsPatched
  <1>1. IInv => SettledIsPatched
    BY DEF IInv, PatchComes, SettledIsPatched, quiet, OpenStackSteps
  <1> QED
    BY <1>1, Invariance, PTL

\* WarmReuse, for any number of threads: a request that begins when the start is over
\* works with the connection or the pool it found and no other, whoever comes beside it.
THEOREM WarmRequestsReuse == ColdSpec => []WarmReuse
  <1>1. IInv => WarmReuse
    BY DEF IInv, Warm, WarmReuse
  <1> QED
    BY <1>1, Invariance, PTL

\* ColdTypeOK; with it that the threads never construct more than a factory and a connection
\* for every call, or a pool and a factory, each, however they overtake one another.
THEOREM TypesHold == ColdSpec => []ColdTypeOK
  <1>1. IInv => ColdTypeOK
    BY DEF IInv, Typed
  <1> QED
    BY <1>1, Invariance, PTL
=============================================================================
