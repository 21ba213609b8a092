------------------------- MODULE OpenclQueueProofs -------------------------
(***************************************************************************)
(* OpenclQueue implements SyncDevice, for any kernels, values, tensors and *)
(* queue length.  The invariant behind it: running the queue takes the     *)
(* device's memory from what it holds to what it is promised to hold.      *)
(***************************************************************************)
EXTENDS OpenclQueue, SequenceTheorems, TLAPS

Memories == [Blocks -> Values]

\* Running the commands of q one after the other leads from memory m to n, the
\* memories in between being those of r.
Path(r, q, m, n, h) ==
  /\ r[0] = m
  /\ r[Len(q)] = n
  /\ \A i \in 1 .. Len(q) : r[i] = Effect(q[i], r[i - 1], h)

Leads(q, m, n, h) == \E r \in [0 .. Len(q) -> Memories] : Path(r, q, m, n, h)

\* No command but a kernel: what the client's array holds does not matter.
KernelsOnly(q) == \A i \in 1 .. Len(q) : q[i].op \in Kernels

-----------------------------------------------------------------------------
(***************************************************************************)
(* Commands                                                                *)
(***************************************************************************)

LEMMA CommandFields ==
  ASSUME NEW c \in Commands
  PROVE  /\ c.op \in Kernels \cup Copies
         /\ c.args \in ArgsOf(c.op)
BY DEF Commands

LEMMA CommandMade ==
  ASSUME NEW op \in Kernels \cup Copies, NEW args \in ArgsOf(op)
  PROVE  [op |-> op, args |-> args] \in Commands
BY DEF Commands

LEMMA EffectType ==
  ASSUME NEW c \in Commands, NEW m \in Memories, NEW h \in Values
  PROVE  Effect(c, m, h) \in Memories
<1>1. c.op \in Kernels \cup Copies /\ c.args \in ArgsOf(c.op)
  BY CommandFields
<1>2. CASE c.op \in Kernels
  <2> DEFINE s == [i \in 1 .. Arity[c.op] |-> m[c.args[i]]]
  <2>1. c.args \in [1 .. Arity[c.op] -> Blocks]
    BY <1>1, <1>2 DEF ArgsOf
  <2>2. s \in [1 .. Arity[c.op] -> Values]
    BY <2>1 DEF Memories
  <2>3. Compute(c.op, s) \in Values
    BY <1>2, <2>2, ComputeAssumption
  <2> HIDE DEF s
  <2>4. [m EXCEPT ![c.args[Output[c.op]]] = Compute(c.op, s)] \in Memories
    BY <2>3 DEF Memories
  <2> QED
    BY <1>2, <2>4 DEF Effect, s
<1>3. CASE c.op \notin Kernels
  BY <1>3 DEF Effect, Memories
<1> QED
  BY <1>2, <1>3

\* A kernel's effect does not depend on the client's array.
LEMMA EffectOfKernel ==
  ASSUME NEW c, c.op \in Kernels, NEW m, NEW h, NEW g
  PROVE  Effect(c, m, h) = Effect(c, m, g)
BY DEF Effect

\* The memory m with another content of p.
Put(m, p, v) == [m EXCEPT ![p] = v]

\* A command leaves alone what it does not use, and works the same whatever
\* that holds.
LEMMA EffectElsewhere ==
  ASSUME NEW c \in Commands, NEW m \in Memories, NEW h \in Values, NEW v \in Values,
         NEW p \in Blocks, \A j \in DOMAIN c.args : c.args[j] # p
  PROVE  Effect(c, Put(m, p, v), h) = Put(Effect(c, m, h), p, v)
<1>1. c.op \in Kernels \cup Copies /\ c.args \in ArgsOf(c.op)
  BY CommandFields
<1> DEFINE w == Put(m, p, v)
<1>w. w \in Memories /\ \A b \in Blocks : w[b] = IF b = p THEN v ELSE m[b]
  BY DEF Memories, Put
<1>2. CASE c.op \in Kernels
  <2> DEFINE s == [i \in 1 .. Arity[c.op] |-> m[c.args[i]]]
             u == [i \in 1 .. Arity[c.op] |-> w[c.args[i]]]
             o == c.args[Output[c.op]]
             x == Compute(c.op, s)
  <2>1. c.args \in [1 .. Arity[c.op] -> Blocks]
    BY <1>1, <1>2 DEF ArgsOf
  <2>2. s = u
    BY <2>1, <1>w
  <2>3. o \in Blocks /\ o # p
    BY <2>1, <1>2, KernelsAssumption
  <2>4. Effect(c, m, h) = [m EXCEPT ![o] = x]
    BY <1>2 DEF Effect
  <2>5. Effect(c, w, h) = [w EXCEPT ![o] = Compute(c.op, u)]
    BY <1>2 DEF Effect
  <2>6. Effect(c, w, h) = [w EXCEPT ![o] = x]
    BY <2>5, <2>2
  <2> HIDE DEF x, o, s, u
  <2>7. [w EXCEPT ![o] = x] = Put([m EXCEPT ![o] = x], p, v)
    BY <2>3 DEF Memories, Put
  <2> QED
    BY <2>4, <2>6, <2>7
<1>3. CASE c.op \notin Kernels
  <2>1. c.args \in [1 .. 1 -> Blocks] /\ c.args[1] \in Blocks /\ c.args[1] # p
    BY <1>1, <1>3 DEF ArgsOf
  <2> QED
    BY <2>1, <1>3 DEF Effect, Memories, Put
<1> QED
  BY <1>2, <1>3

-----------------------------------------------------------------------------
(***************************************************************************)
(* Running a queue                                                         *)
(***************************************************************************)

LEMMA LeadsNowhere ==
  ASSUME NEW h, NEW m \in Memories, NEW n
  PROVE  Leads(<<>>, m, n, h) <=> n = m
<1>1. Leads(<<>>, m, n, h) => n = m
  BY DEF Leads, Path
<1>2. ASSUME n = m PROVE Leads(<<>>, m, n, h)
  <2>1. [i \in 0 .. 0 |-> m] \in [0 .. Len(<<>>) -> Memories]
    OBVIOUS
  <2>2. Path([i \in 0 .. 0 |-> m], <<>>, m, n, h)
    BY <1>2 DEF Path
  <2> QED
    BY <2>1, <2>2 DEF Leads
<1> QED
  BY <1>1, <1>2

\* A command more at the end of the queue.
LEMMA LeadsAppend ==
  ASSUME NEW q \in Seq(Commands), NEW c \in Commands, NEW h \in Values,
         NEW m \in Memories, NEW n \in Memories, Leads(q, m, n, h)
  PROVE  Leads(Append(q, c), m, Effect(c, n, h), h)
<1> DEFINE x == Effect(c, n, h)
           k == Len(q)
<1>1. k \in Nat /\ Len(Append(q, c)) = k + 1
  OBVIOUS
<1>2. \A i \in 1 .. k : Append(q, c)[i] = q[i]
  OBVIOUS
<1>3. Append(q, c)[k + 1] = c
  OBVIOUS
<1>4. x \in Memories
  BY EffectType
<1>5. PICK r \in [0 .. k -> Memories] : Path(r, q, m, n, h)
  BY DEF Leads
<1>6. r[0] = m /\ r[k] = n /\ \A i \in 1 .. k : r[i] = Effect(q[i], r[i - 1], h)
  BY <1>5 DEF Path
<1> DEFINE s == [i \in 0 .. k + 1 |-> IF i = k + 1 THEN x ELSE r[i]]
<1>7. s \in [0 .. k + 1 -> Memories]
  BY <1>1, <1>4
<1>8. s[0] = m /\ s[k + 1] = x
  BY <1>1, <1>6
<1>9. ASSUME NEW i \in 1 .. k + 1
      PROVE  s[i] = Effect(Append(q, c)[i], s[i - 1], h)
  <2>1. CASE i = k + 1
    <3>1. s[i - 1] = n
      BY <1>1, <1>6, <2>1
    <3> QED
      BY <1>1, <1>3, <2>1, <3>1
  <2>2. CASE i # k + 1
    <3>1. i \in 1 .. k /\ s[i] = r[i] /\ s[i - 1] = r[i - 1]
      BY <1>1, <2>2
    <3> HIDE DEF s
    <3> QED
      BY <1>2, <1>6, <3>1
  <2> QED
    BY <2>1, <2>2
<1> HIDE DEF s, x
<1>10. Path(s, Append(q, c), m, x, h)
  BY <1>1, <1>8, <1>9 DEF Path
<1>11. Leads(Append(q, c), m, x, h)
  BY <1>1, <1>7, <1>10 DEF Leads
<1> QED
  BY <1>11 DEF x

\* The command at the head has run.
LEMMA LeadsTail ==
  ASSUME NEW q \in Seq(Commands), NEW p \in Seq(Commands), NEW h \in Values,
         NEW m \in Memories, NEW n \in Memories, Leads(q, m, n, h),
         Len(q) # 0, Len(p) = Len(q) - 1,
         \A i \in 1 .. Len(p) : p[i] = q[i + 1]
  PROVE  Leads(p, Effect(q[1], m, h), n, h)
<1> DEFINE k == Len(p)
           x == Effect(q[1], m, h)
<1>1. k \in Nat /\ Len(q) = k + 1
  OBVIOUS
<1>2. PICK r \in [0 .. k + 1 -> Memories] : Path(r, q, m, n, h)
  BY <1>1 DEF Leads
<1>3. /\ r[0] = m /\ r[k + 1] = n
      /\ \A i \in 1 .. k + 1 : r[i] = Effect(q[i], r[i - 1], h)
  BY <1>1, <1>2 DEF Path
<1> DEFINE s == [i \in 0 .. k |-> r[i + 1]]
<1>4. s \in [0 .. k -> Memories]
  BY <1>1
<1>5. s[k] = n
  BY <1>1, <1>3
<1>6. s[0] = x
  <2>1. 1 \in 1 .. k + 1 /\ 1 - 1 = 0
    BY <1>1
  <2>2. r[1] = Effect(q[1], r[0], h)
    BY <1>3, <2>1
  <2> QED
    BY <1>1, <1>3, <2>2
<1>7. ASSUME NEW i \in 1 .. k PROVE s[i] = Effect(p[i], s[i - 1], h)
  <2>1. i + 1 \in 1 .. k + 1 /\ (i + 1) - 1 = i
    BY <1>1
  <2>2. s[i] = r[i + 1] /\ s[i - 1] = r[i]
    BY <1>1
  <2>3. r[i + 1] = Effect(q[i + 1], r[i], h)
    BY <1>3, <2>1
  <2> QED
    BY <2>2, <2>3
<1> HIDE DEF s, x
<1>9. Path(s, p, x, n, h)
  BY <1>5, <1>6, <1>7 DEF Path
<1>10. Leads(p, x, n, h)
  BY <1>4, <1>9 DEF Leads
<1> QED
  BY <1>10 DEF x

\* The client writes its array while only kernels wait.
LEMMA LeadsAnyHost ==
  ASSUME NEW q \in Seq(Commands), KernelsOnly(q), NEW h, NEW g, NEW m, NEW n,
         Leads(q, m, n, h)
  PROVE  Leads(q, m, n, g)
<1>1. PICK r \in [0 .. Len(q) -> Memories] : Path(r, q, m, n, h)
  BY DEF Leads
<1>2. ASSUME NEW i \in 1 .. Len(q) PROVE r[i] = Effect(q[i], r[i - 1], g)
  <2>1. r[i] = Effect(q[i], r[i - 1], h)
    BY <1>1 DEF Path
  <2>2. q[i].op \in Kernels
    BY DEF KernelsOnly
  <2> QED
    BY <2>1, <2>2, EffectOfKernel
<1>3. Path(r, q, m, n, g)
  BY <1>1, <1>2 DEF Path
<1> QED
  BY <1>3 DEF Leads

\* A block that no command of the queue uses gets another content.
LEMMA LeadsElsewhere ==
  ASSUME NEW q \in Seq(Commands), NEW h \in Values, NEW v \in Values, NEW p \in Blocks,
         \A i \in 1 .. Len(q) : \A j \in DOMAIN q[i].args : q[i].args[j] # p,
         NEW m \in Memories, NEW n \in Memories, Leads(q, m, n, h)
  PROVE  Leads(q, [m EXCEPT ![p] = v], [n EXCEPT ![p] = v], h)
<1>1. PICK r \in [0 .. Len(q) -> Memories] : Path(r, q, m, n, h)
  BY DEF Leads
<1>2. /\ r[0] = m /\ r[Len(q)] = n
      /\ \A i \in 1 .. Len(q) : r[i] = Effect(q[i], r[i - 1], h)
  BY <1>1 DEF Path
<1> DEFINE s == [i \in 0 .. Len(q) |-> Put(r[i], p, v)]
<1>3. s \in [0 .. Len(q) -> Memories]
  BY DEF Memories, Put
<1>4. s[0] = Put(m, p, v) /\ s[Len(q)] = Put(n, p, v)
  <2>1. 0 \in 0 .. Len(q) /\ Len(q) \in 0 .. Len(q)
    OBVIOUS
  <2>2. s[0] = Put(r[0], p, v) /\ s[Len(q)] = Put(r[Len(q)], p, v)
    BY <2>1
  <2> HIDE DEF s
  <2> QED
    BY <1>2, <2>2
<1>5. ASSUME NEW i \in 1 .. Len(q) PROVE s[i] = Effect(q[i], s[i - 1], h)
  <2>1. q[i] \in Commands /\ i - 1 \in 0 .. Len(q) /\ i \in 0 .. Len(q)
    OBVIOUS
  <2>2. r[i - 1] \in Memories
    BY <2>1
  <2>3. \A j \in DOMAIN q[i].args : q[i].args[j] # p
    OBVIOUS
  <2>4. s[i] = Put(r[i], p, v) /\ s[i - 1] = Put(r[i - 1], p, v)
    BY <2>1
  <2> HIDE DEF s
  <2>5. Effect(q[i], Put(r[i - 1], p, v), h) = Put(Effect(q[i], r[i - 1], h), p, v)
    BY <2>1, <2>2, <2>3, EffectElsewhere
  <2> QED
    BY <1>2, <2>4, <2>5
<1> HIDE DEF s
<1>6. Path(s, q, Put(m, p, v), Put(n, p, v), h)
  BY <1>4, <1>5 DEF Path
<1>7. Leads(q, Put(m, p, v), Put(n, p, v), h)
  BY <1>3, <1>6 DEF Leads
<1> QED
  BY <1>7 DEF Put

-----------------------------------------------------------------------------
(***************************************************************************)
(* The invariant                                                           *)
(***************************************************************************)

\* No two tensors share a block, and none has one that waits in the pool.
Exclusive ==
  /\ \A t, u \in Resident : block[t] = block[u] => t = u
  /\ Held \cap pooled = {}

\* A copy is the last command of the queue, the host thread is blocked in it, and
\* its block is some tensor's.
CopiesBlock ==
  \A i \in 1 .. Len(queue) : queue[i].op \in Copies =>
    /\ i = Len(queue)
    /\ call = queue[i].op
    /\ queue[i].args[1] \in Held

\* Running the queue keeps the promise.
PromiseKept == Leads(queue, content, promised, host)

IInv == TypeOK /\ Exclusive /\ CopiesBlock /\ PromiseKept

LEMMA InitEstablishes == Init => IInv
<1> SUFFICES ASSUME Init PROVE IInv
  OBVIOUS
<1>1. TypeOK
  <2>1. \A k \in Kernels : kernel_args[k] \in BoundTo(k)
    BY DEF Init, BoundTo
  <2> QED
    BY <2>1 DEF Init, TypeOK
<1>2. Exclusive /\ CopiesBlock
  BY DEF Init, Exclusive, CopiesBlock, Resident, Held
<1>3. PromiseKept
  BY LeadsNowhere DEF Init, PromiseKept, Memories
<1> QED
  BY <1>1, <1>2, <1>3 DEF IInv

\* While the host thread is free to call, only kernels wait.
LEMMA IdleQueue == ASSUME IInv, Idle PROVE KernelsOnly(queue)
<1>1. ASSUME NEW i \in 1 .. Len(queue) PROVE queue[i].op \in Kernels
  <2>1. queue[i] \in Commands
    BY DEF IInv, TypeOK
  <2>2. queue[i].op \in Kernels \cup Copies
    BY <2>1, CommandFields
  <2> QED
    BY <2>2 DEF IInv, CopiesBlock, Idle, Copies
<1> QED
  BY <1>1 DEF KernelsOnly

\* A command more keeps the promise, since the promise is made with it.
LEMMA EnqueueStep ==
  ASSUME IInv, NEW c \in Commands, Enqueue(c), UNCHANGED <<content, host>>
  PROVE  /\ queue' \in Seq(Commands)
         /\ Len(queue') = Len(queue) + 1
         /\ queue'[Len(queue) + 1] = c
         /\ \A i \in 1 .. Len(queue) : queue'[i] = queue[i]
         /\ promised' \in [Blocks -> Values]
         /\ PromiseKept'
<1>1. queue \in Seq(Commands) /\ content \in Memories /\ promised \in Memories /\ host \in Values
  BY DEF IInv, TypeOK, Memories
<1>2. queue' = Append(queue, c) /\ promised' = Effect(c, promised, host)
  BY DEF Enqueue
<1>3. promised' \in Memories
  BY <1>1, <1>2, EffectType
<1>4. Leads(queue, content, promised, host)
  BY DEF IInv, PromiseKept
<1>5. Leads(Append(queue, c), content, Effect(c, promised, host), host)
  BY <1>1, <1>4, LeadsAppend
<1>6. PromiseKept'
  BY <1>2, <1>5 DEF PromiseKept
<1> QED
  BY <1>1, <1>2, <1>3, <1>6 DEF Memories

\* What a launch enqueues is a command on its tensors' blocks.
LEMMA LaunchedCommand ==
  ASSUME IInv, NEW k \in Kernels, NEW args \in [1 .. Arity[k] -> Tensors],
         LaunchKernel(k, args)
  PROVE  /\ kernel_args'[k] = [i \in 1 .. Arity[k] |-> block[args[i]]]
         /\ [op |-> k, args |-> kernel_args'[k]] \in Commands
         /\ Enqueue([op |-> k, args |-> kernel_args'[k]])
         /\ \A i \in 1 .. Arity[k] : args[i] \in Resident /\ block[args[i]] \in Blocks
<1>1. \A i \in 1 .. Arity[k] : args[i] \in Resident /\ block[args[i]] \in Blocks
  BY DEF LaunchKernel, Launchable, Resident, IInv, TypeOK
<1>2. kernel_args'[k] = [i \in 1 .. Arity[k] |-> block[args[i]]]
  <2>1. Arity[k] \in Nat
    BY KernelsAssumption
  <2>2. k \in DOMAIN kernel_args
    BY DEF IInv, TypeOK
  <2> QED
    BY <2>1, <2>2 DEF LaunchKernel, Bind
<1>3. kernel_args'[k] \in ArgsOf(k)
  BY <1>1, <1>2 DEF ArgsOf
<1> QED
  BY <1>1, <1>2, <1>3, CommandMade DEF LaunchKernel

\* Binding arguments, all or some, keeps them of their type.
LEMMA BindType ==
  ASSUME IInv, NEW k \in Kernels, NEW args \in [1 .. Arity[k] -> Tensors],
         NEW n, Bind(k, args, n)
  PROVE  /\ DOMAIN kernel_args' = Kernels
         /\ \A l \in Kernels : kernel_args'[l] \in BoundTo(l)
<1>1. /\ DOMAIN kernel_args = Kernels
      /\ \A l \in Kernels : kernel_args[l] \in BoundTo(l)
      /\ block \in [Tensors -> Blocks \cup {NoBlock}]
  BY DEF IInv, TypeOK
<1> DEFINE new == [i \in 1 .. Arity[k] |-> IF i <= n THEN block[args[i]] ELSE kernel_args[k][i]]
<1>2. kernel_args' = [kernel_args EXCEPT ![k] = new]
  BY DEF Bind
<1>3. new \in BoundTo(k)
  BY <1>1 DEF BoundTo
<1> HIDE DEF new
<1> QED
  BY <1>1, <1>2, <1>3

LEMMA LaunchStep ==
  ASSUME IInv, NEW k \in Kernels, NEW args \in [1 .. Arity[k] -> Tensors],
         LaunchKernel(k, args)
  PROVE  IInv'
<1> DEFINE c == [op |-> k, args |-> kernel_args'[k]]
<1>1. c \in Commands /\ Enqueue(c)
  BY LaunchedCommand
<1>2. UNCHANGED <<block, pooled, content, submitted, call, host>>
  BY DEF LaunchKernel
<1>3. /\ queue' \in Seq(Commands)
      /\ Len(queue') = Len(queue) + 1
      /\ queue'[Len(queue) + 1] = c
      /\ \A i \in 1 .. Len(queue) : queue'[i] = queue[i]
      /\ promised' \in [Blocks -> Values]
      /\ PromiseKept'
  BY <1>1, <1>2, EnqueueStep
<1>4. TypeOK'
  <2>1. /\ DOMAIN kernel_args' = Kernels
        /\ \A l \in Kernels : kernel_args'[l] \in BoundTo(l)
    BY BindType DEF LaunchKernel
  <2>2. submitted' \in 0 .. Len(queue')
    BY <1>2, <1>3 DEF IInv, TypeOK
  <2> QED
    BY <1>2, <1>3, <2>1, <2>2 DEF IInv, TypeOK, BoundTo
<1>5. Exclusive'
  BY <1>2 DEF IInv, Exclusive, Resident, Held
<1>6. CopiesBlock'
  <2> SUFFICES ASSUME NEW i \in 1 .. Len(queue'), queue'[i].op \in Copies PROVE FALSE
    BY DEF CopiesBlock
  <2>1. Len(queue) \in Nat
    BY DEF IInv, TypeOK
  <2>2. CASE i = Len(queue) + 1
    BY <1>3, <2>2, KernelsAssumption
  <2>3. CASE i # Len(queue) + 1
    <3>1. i \in 1 .. Len(queue) /\ queue'[i] = queue[i]
      BY <1>3, <2>1, <2>3
    <3>2. Idle
      BY DEF LaunchKernel, Launchable
    <3>3. queue[i].op \in Kernels
      BY <3>1, <3>2, IdleQueue DEF KernelsOnly
    <3> QED
      BY <3>1, <3>3, KernelsAssumption
  <2> QED
    BY <2>2, <2>3
<1> QED
  BY <1>3, <1>4, <1>5, <1>6 DEF IInv

LEMMA CopyStep ==
  ASSUME IInv, NEW direction \in Copies, NEW t \in Tensors, Copy(direction, t)
  PROVE  IInv'
<1> DEFINE c == [op |-> direction, args |-> [i \in 1 .. 1 |-> block[t]]]
<1>1. t \in Resident /\ block[t] \in Blocks /\ block[t] \in Held
  BY DEF Copy, Resident, Held, IInv, TypeOK
<1>2. c \in Commands /\ Enqueue(c)
  <2>1. direction \notin Kernels
    BY KernelsAssumption
  <2>2. [i \in 1 .. 1 |-> block[t]] \in ArgsOf(direction)
    BY <1>1, <2>1 DEF ArgsOf
  <2> QED
    BY <2>2, CommandMade DEF Copy
<1>3. /\ UNCHANGED <<block, pooled, content, kernel_args, host>>
      /\ submitted' = Len(queue) + 1 /\ call' = direction
  BY DEF Copy
<1>4. /\ queue' \in Seq(Commands)
      /\ Len(queue') = Len(queue) + 1
      /\ queue'[Len(queue) + 1] = c
      /\ \A i \in 1 .. Len(queue) : queue'[i] = queue[i]
      /\ promised' \in [Blocks -> Values]
      /\ PromiseKept'
  BY <1>2, <1>3, EnqueueStep
<1>5. Len(queue) \in Nat
  BY DEF IInv, TypeOK
<1>6. TypeOK'
  <2>1. submitted' \in 0 .. Len(queue') /\ call' \in {"none", "write", "read", "sync"}
    BY <1>3, <1>4, <1>5 DEF Copies
  <2> QED
    BY <1>3, <1>4, <2>1 DEF IInv, TypeOK, BoundTo
<1>7. Exclusive'
  BY <1>3 DEF IInv, Exclusive, Resident, Held
<1>8. CopiesBlock'
  <2> SUFFICES ASSUME NEW i \in 1 .. Len(queue'), queue'[i].op \in Copies
               PROVE  i = Len(queue') /\ call' = queue'[i].op /\ queue'[i].args[1] \in Held'
    BY DEF CopiesBlock
  <2>1. CASE i = Len(queue) + 1
    <3>1. Held' = Held
      BY <1>3 DEF Held, Resident
    <3>2. queue'[i].op = direction /\ queue'[i].args[1] = block[t]
      BY <1>4, <2>1
    <3> QED
      BY <1>1, <1>3, <1>4, <2>1, <3>1, <3>2
  <2>2. CASE i # Len(queue) + 1
    <3>1. i \in 1 .. Len(queue) /\ queue'[i] = queue[i]
      BY <1>4, <1>5, <2>2
    <3>2. queue[i].op \in Kernels
      BY <3>1, IdleQueue DEF KernelsOnly, Copy
    <3> QED
      BY <3>1, <3>2, KernelsAssumption
  <2> QED
    BY <2>1, <2>2
<1> QED
  BY <1>4, <1>6, <1>7, <1>8 DEF IInv

\* A queue without one of its commands: the later ones are one place nearer.
LEMMA CommandRemoved ==
  ASSUME NEW S, NEW q \in Seq(S), NEW k \in 1 .. Len(q)
  PROVE  /\ RemoveAt(q, k) \in Seq(S)
         /\ Len(RemoveAt(q, k)) = Len(q) - 1
         /\ \A i \in k .. Len(q) - 1 : RemoveAt(q, k)[i] = q[i + 1]
<1> DEFINE front == SubSeq(q, 1, k - 1)
           back == SubSeq(q, k + 1, Len(q))
<1>1. Len(q) \in Nat
  OBVIOUS
<1>2. front \in Seq(S) /\ Len(front) = k - 1
  BY <1>1
<1>3. /\ back \in Seq(S)
      /\ Len(back) = Len(q) - k
      /\ \A i \in 1 .. Len(q) - k : back[i] = q[k + i]
  BY <1>1
<1>4. RemoveAt(q, k) = front \o back
  BY DEF RemoveAt
<1> HIDE DEF front, back
<1>5. /\ front \o back \in Seq(S)
      /\ Len(front \o back) = Len(q) - 1
      /\ \A i \in 1 .. Len(q) - 1 : (front \o back)[i] =
           IF i <= k - 1 THEN front[i] ELSE back[i - (k - 1)]
  <2>1. /\ front \o back \in Seq(S)
        /\ Len(front \o back) = Len(front) + Len(back)
        /\ \A i \in 1 .. Len(front) + Len(back) : (front \o back)[i] =
             IF i <= Len(front) THEN front[i] ELSE back[i - Len(front)]
    BY <1>2, <1>3, ConcatProperties
  <2>2. Len(front) = k - 1 /\ Len(front) + Len(back) = Len(q) - 1
    BY <1>1, <1>2, <1>3
  <2> QED
    BY <2>1, <2>2
<1>6. ASSUME NEW i \in k .. Len(q) - 1 PROVE (front \o back)[i] = q[i + 1]
  <2>1. i - (k - 1) \in 1 .. Len(q) - k /\ k + (i - (k - 1)) = i + 1
    BY <1>1
  <2>2. i \in 1 .. Len(q) - 1 /\ ~(i <= k - 1)
    BY <1>1
  <2>3. (front \o back)[i] = back[i - (k - 1)]
    BY <1>5, <2>2
  <2> QED
    BY <1>3, <2>1, <2>3
<1> QED
  BY <1>4, <1>5, <1>6

\* The command at the head of the queue is one that the device may run.
LEMMA HeadRuns ==
  ASSUME IInv, DeviceStep
  PROVE  /\ Len(queue) \in Nat \ {0} /\ submitted \in 1 .. Len(queue)
         /\ queue[1] \in Commands
         /\ content' = Effect(queue[1], content, host)
         /\ host' = IF queue[1].op = "read" THEN content[queue[1].args[1]] ELSE host
         /\ queue' = RemoveAt(queue, 1)
         /\ submitted' = submitted - 1
         /\ UNCHANGED <<block, pooled, promised, kernel_args, call>>
         /\ queue' \in Seq(Commands)
         /\ Len(queue') = Len(queue) - 1
         /\ \A i \in 1 .. Len(queue') : queue'[i] = queue[i + 1]
<1>1. queue \in Seq(Commands) /\ submitted \in 0 .. Len(queue) /\ Len(queue) \in Nat
  BY DEF IInv, TypeOK
<1>2. /\ submitted > 0
      /\ content' = Effect(queue[1], content, host)
      /\ host' = IF queue[1].op = "read" THEN content[queue[1].args[1]] ELSE host
      /\ queue' = RemoveAt(queue, 1)
      /\ submitted' = submitted - 1
      /\ UNCHANGED <<block, pooled, promised, kernel_args, call>>
  BY DEF DeviceStep, Runs
<1>3. Len(queue) # 0 /\ submitted \in 1 .. Len(queue)
  BY <1>1, <1>2
<1>4. queue[1] \in Commands
  BY <1>1, <1>3
<1>5. /\ queue' \in Seq(Commands)
      /\ Len(queue') = Len(queue) - 1
      /\ \A i \in 1 .. Len(queue') : queue'[i] = queue[i + 1]
  <2>1. 1 \in 1 .. Len(queue)
    BY <1>1, <1>3
  <2> QED
    BY <1>1, <1>2, <2>1, CommandRemoved
<1> QED
  BY <1>1, <1>2, <1>3, <1>4, <1>5

\* A copy at the head of the queue is the whole queue.
LEMMA CopyIsAlone ==
  ASSUME IInv, Len(queue) \in Nat \ {0}, queue[1].op \in Copies
  PROVE  Len(queue) = 1 /\ call = queue[1].op /\ queue[1].args[1] \in Held
<1>1. 1 \in 1 .. Len(queue)
  OBVIOUS
<1> QED
  BY <1>1 DEF IInv, CopiesBlock

LEMMA DeviceStepKeeps == ASSUME IInv, DeviceStep PROVE IInv'
<1>1. /\ Len(queue) \in Nat \ {0} /\ submitted \in 1 .. Len(queue)
      /\ queue[1] \in Commands
      /\ content' = Effect(queue[1], content, host)
      /\ host' = IF queue[1].op = "read" THEN content[queue[1].args[1]] ELSE host
      /\ submitted' = submitted - 1
      /\ UNCHANGED <<block, pooled, promised, kernel_args, call>>
      /\ queue' \in Seq(Commands)
      /\ Len(queue') = Len(queue) - 1
      /\ \A i \in 1 .. Len(queue') : queue'[i] = queue[i + 1]
  BY HeadRuns
<1>2. queue \in Seq(Commands) /\ content \in Memories /\ promised \in Memories /\ host \in Values
  BY DEF IInv, TypeOK, Memories
<1>3. content' \in Memories
  BY <1>1, <1>2, EffectType
<1>4. host' \in Values
  <2>1. CASE queue[1].op = "read"
    <3>1. queue[1].args[1] \in Held
      BY <1>1, <2>1, CopyIsAlone DEF Copies
    <3>2. Held \subseteq Blocks
      BY DEF Held, Resident, IInv, TypeOK
    <3> QED
      BY <1>1, <1>2, <2>1, <3>1, <3>2 DEF Memories
  <2> QED
    BY <1>1, <1>2, <2>1
<1>5. TypeOK'
  <2>1. submitted' \in 0 .. Len(queue')
    BY <1>1
  <2> QED
    BY <1>1, <1>3, <1>4, <2>1 DEF IInv, TypeOK, BoundTo, Memories
<1>6. Exclusive'
  BY <1>1 DEF IInv, Exclusive, Resident, Held
<1>7. CopiesBlock'
  <2>1. Held' = Held
    BY <1>1 DEF Held, Resident
  <2> SUFFICES ASSUME NEW i \in 1 .. Len(queue'), queue'[i].op \in Copies
               PROVE  i = Len(queue') /\ call' = queue'[i].op /\ queue'[i].args[1] \in Held'
    BY DEF CopiesBlock
  <2>2. i + 1 \in 1 .. Len(queue) /\ queue'[i] = queue[i + 1]
    BY <1>1
  <2>3. i + 1 = Len(queue) /\ call = queue[i + 1].op /\ queue[i + 1].args[1] \in Held
    BY <2>2 DEF IInv, CopiesBlock
  <2> QED
    BY <1>1, <2>1, <2>2, <2>3
<1>8. PromiseKept'
  <2>1. Leads(queue', content', promised, host)
    <3>1. Leads(queue, content, promised, host)
      BY DEF IInv, PromiseKept
    <3> QED
      BY <1>1, <1>2, <3>1, LeadsTail
  <2>2. CASE queue[1].op = "read"
    <3>0. Len(queue) = 1
      <4>1. queue[1].op \in Copies
        BY <2>2 DEF Copies
      <4>2. Len(queue) \in Nat \ {0}
        BY <1>1
      <4> QED
        BY <4>1, <4>2, CopyIsAlone
    <3>1. Len(queue') = 0
      BY <1>1, <3>0
    <3>2. KernelsOnly(queue')
      BY <3>1 DEF KernelsOnly
    <3>3. queue' \in Seq(Commands)
      BY <1>1
    <3>4. ASSUME NEW q, q \in Seq(Commands), KernelsOnly(q), Leads(q, content', promised, host)
          PROVE  Leads(q, content', promised, host')
      BY <3>4, LeadsAnyHost
    <3>5. Leads(queue', content', promised, host')
      BY <2>1, <3>2, <3>3, <3>4
    <3> QED
      BY <1>1, <3>5 DEF PromiseKept
  <2>3. CASE queue[1].op # "read"
    BY <1>1, <2>1, <2>3 DEF PromiseKept
  <2> QED
    BY <2>2, <2>3
<1> QED
  BY <1>5, <1>6, <1>7, <1>8 DEF IInv

\* A call that is refused leaves some arguments bound, which no command in the
\* queue reads any more.
LEMMA LaunchFailsKeeps ==
  ASSUME IInv, NEW k \in Kernels, NEW args \in [1 .. Arity[k] -> Tensors],
         LaunchFails(k, args)
  PROVE  IInv'
<1>1. UNCHANGED <<block, pooled, content, promised, queue, submitted, call, host>>
  BY DEF LaunchFails
<1>2. /\ DOMAIN kernel_args' = Kernels
      /\ \A l \in Kernels : kernel_args'[l] \in BoundTo(l)
  <2>1. PICK n \in 0 .. Arity[k] : Bind(k, args, n)
    BY DEF LaunchFails
  <2> QED
    BY <2>1, BindType
<1>3. TypeOK'
  BY <1>1, <1>2 DEF IInv, TypeOK, BoundTo
<1> QED
  BY <1>1, <1>3 DEF IInv, Exclusive, CopiesBlock, PromiseKept, Resident, Held

\* What neither calls nor runs anything: the driver submits, clFinish() starts to
\* wait, a blocking call returns.
LEMMA WaitingKeeps ==
  ASSUME IInv, DriverSubmit \/ Sync \/ Return
  PROVE  IInv'
<1>1. UNCHANGED <<block, pooled, content, promised, kernel_args, queue, host>>
  BY DEF DriverSubmit, Sync, Return
<1>2. Len(queue) \in Nat /\ submitted \in 0 .. Len(queue)
  BY DEF IInv, TypeOK
<1>3. TypeOK'
  <2>1. submitted' \in 0 .. Len(queue) /\ call' \in {"none", "write", "read", "sync"}
    BY <1>2 DEF DriverSubmit, Sync, Return, IInv, TypeOK
  <2> QED
    BY <1>1, <2>1 DEF IInv, TypeOK, BoundTo
<1>4. CopiesBlock'
  <2>1. Held' = Held
    BY <1>1 DEF Held, Resident
  <2> SUFFICES ASSUME NEW i \in 1 .. Len(queue), queue[i].op \in Copies
               PROVE  i = Len(queue) /\ call' = queue[i].op /\ queue[i].args[1] \in Held
    BY <1>1, <2>1 DEF CopiesBlock
  <2>2. i = Len(queue) /\ call = queue[i].op /\ queue[i].args[1] \in Held
    BY DEF IInv, CopiesBlock
  <2>3. CASE DriverSubmit
    BY <2>2, <2>3 DEF DriverSubmit
  <2>4. CASE Sync
    BY <2>2, <2>4 DEF Sync, Idle, Copies
  <2>5. CASE Return
    <3>1. call # "sync"
      BY <2>2 DEF Copies
    <3>2. \A j \in DOMAIN queue : queue[j].op # call
      BY <2>5, <3>1 DEF Return, Finished
    <3>3. i \in DOMAIN queue
      BY DEF IInv, TypeOK
    <3> QED
      BY <2>2, <3>2, <3>3
  <2> QED
    BY <2>3, <2>4, <2>5
<1> QED
  BY <1>1, <1>3, <1>4 DEF IInv, Exclusive, PromiseKept, Resident, Held

LEMMA HostWriteKeeps == ASSUME IInv, NEW v \in Values, HostWrite(v) PROVE IInv'
<1>1. /\ host' = v /\ Idle
      /\ UNCHANGED <<block, pooled, content, promised, kernel_args, queue, submitted, call>>
  BY DEF HostWrite
<1>2. TypeOK'
  BY <1>1 DEF IInv, TypeOK, BoundTo
<1>3. PromiseKept'
  <2>1. KernelsOnly(queue) /\ queue \in Seq(Commands)
    BY <1>1, IdleQueue DEF IInv, TypeOK
  <2>2. Leads(queue, content, promised, host)
    BY DEF IInv, PromiseKept
  <2>3. Leads(queue, content, promised, v)
    BY <2>1, <2>2, LeadsAnyHost
  <2> QED
    BY <1>1, <2>3 DEF PromiseKept
<1> QED
  BY <1>1, <1>2, <1>3 DEF IInv, Exclusive, CopiesBlock, Resident, Held

\* Allocation and freeing happen while only kernels wait.
LEMMA NoCopyWaits ==
  ASSUME IInv, Idle, UNCHANGED <<queue>>
  PROVE  CopiesBlock'
<1> SUFFICES ASSUME NEW i \in 1 .. Len(queue), queue[i].op \in Copies PROVE FALSE
  BY DEF CopiesBlock
<1> QED
  BY IdleQueue, KernelsAssumption DEF KernelsOnly

LEMMA AllocFromPoolKeeps ==
  ASSUME IInv, NEW t \in Tensors, NEW p \in Blocks, AllocFromPool(t, p)
  PROVE  IInv'
<1>1. /\ Idle /\ t \notin Resident /\ p \in pooled
      /\ block' = [block EXCEPT ![t] = p]
      /\ pooled' = pooled \ {p}
      /\ UNCHANGED <<content, promised, kernel_args, queue, submitted, call, host>>
  BY DEF AllocFromPool
<1>2. block \in [Tensors -> Blocks \cup {NoBlock}]
  BY DEF IInv, TypeOK
<1>3. TypeOK'
  BY <1>1 DEF IInv, TypeOK, BoundTo
<1>4. Exclusive'
  <2>1. \A u \in Tensors : block'[u] = IF u = t THEN p ELSE block[u]
    BY <1>1, <1>2
  <2>2. Resident' = Resident \cup {t}
    BY <1>2, <2>1, NoBlockAssumption DEF Resident
  <2>3. p \notin Held
    BY <1>1 DEF IInv, Exclusive
  <2>4. \A u \in Resident : block[u] # p
    BY <2>3 DEF Held
  <2>5. \A u, w \in Resident' : block'[u] = block'[w] => u = w
    BY <1>1, <2>1, <2>2, <2>4 DEF IInv, Exclusive, Resident
  <2>6. Held' \cap pooled' = {}
    BY <1>1, <2>1, <2>2 DEF IInv, Exclusive, Held, Resident
  <2> QED
    BY <2>5, <2>6 DEF Exclusive
<1> QED
  BY <1>1, <1>3, <1>4, NoCopyWaits DEF IInv, PromiseKept

LEMMA AllocFromBackendKeeps ==
  ASSUME IInv, NEW t \in Tensors, NEW p \in Blocks, NEW v \in Values,
         AllocFromBackend(t, p, v)
  PROVE  IInv'
<1>1. /\ Idle /\ t \notin Resident /\ p \notin Held \cup pooled \cup InUse
      /\ block' = [block EXCEPT ![t] = p]
      /\ content' = [content EXCEPT ![p] = v]
      /\ promised' = [promised EXCEPT ![p] = v]
      /\ UNCHANGED <<pooled, kernel_args, queue, submitted, call, host>>
  BY DEF AllocFromBackend
<1>2. /\ block \in [Tensors -> Blocks \cup {NoBlock}] /\ queue \in Seq(Commands)
      /\ content \in Memories /\ promised \in Memories /\ host \in Values
  BY DEF IInv, TypeOK, Memories
<1>3. TypeOK'
  BY <1>1 DEF IInv, TypeOK, BoundTo
<1>4. Exclusive'
  <2>1. \A u \in Tensors : block'[u] = IF u = t THEN p ELSE block[u]
    BY <1>1, <1>2
  <2>2. Resident' = Resident \cup {t}
    BY <1>2, <2>1, NoBlockAssumption DEF Resident
  <2>4. \A u \in Resident : block[u] # p
    BY <1>1 DEF Held
  <2>5. \A u, w \in Resident' : block'[u] = block'[w] => u = w
    BY <1>1, <2>1, <2>2, <2>4 DEF IInv, Exclusive, Resident
  <2>6. Held' \cap pooled' = {}
    BY <1>1, <2>1, <2>2 DEF IInv, Exclusive, Held, Resident
  <2> QED
    BY <2>5, <2>6 DEF Exclusive
<1>5. PromiseKept'
  <2>1. \A i \in 1 .. Len(queue) : \A j \in DOMAIN queue[i].args : queue[i].args[j] # p
    BY <1>1, <1>2 DEF InUse
  <2>2. Leads(queue, content, promised, host)
    BY DEF IInv, PromiseKept
  <2>3. Leads(queue, [content EXCEPT ![p] = v], [promised EXCEPT ![p] = v], host)
    BY <1>2, <2>1, <2>2, LeadsElsewhere
  <2> QED
    BY <1>1, <2>3 DEF PromiseKept
<1> QED
  BY <1>1, <1>3, <1>4, <1>5, NoCopyWaits DEF IInv

LEMMA TensorFreeKeeps ==
  ASSUME IInv, NEW t \in Tensors, TensorFree(t)
  PROVE  IInv'
<1>1. /\ Idle /\ t \in Resident
      /\ pooled' \in {pooled, pooled \cup {block[t]}}
      /\ block' = [block EXCEPT ![t] = NoBlock]
      /\ UNCHANGED <<content, promised, kernel_args, queue, submitted, call, host>>
  BY DEF TensorFree
<1>2. block \in [Tensors -> Blocks \cup {NoBlock}] /\ block[t] \in Blocks
  BY <1>1 DEF IInv, TypeOK, Resident
<1>3. TypeOK'
  BY <1>1, <1>2 DEF IInv, TypeOK, BoundTo
<1>4. Exclusive'
  <2>1. \A u \in Tensors : block'[u] = IF u = t THEN NoBlock ELSE block[u]
    BY <1>1, <1>2
  <2>2. Resident' = Resident \ {t}
    BY <1>2, <2>1, NoBlockAssumption DEF Resident
  <2>3. \A u, w \in Resident' : block'[u] = block'[w] => u = w
    BY <2>1, <2>2 DEF IInv, Exclusive, Resident
  <2>4. Held' \subseteq Held /\ block[t] \notin Held'
    BY <1>1, <2>1, <2>2 DEF IInv, Exclusive, Held, Resident
  <2>5. Held' \cap pooled' = {}
    BY <1>1, <2>4 DEF IInv, Exclusive
  <2> QED
    BY <2>3, <2>5 DEF Exclusive
<1> QED
  BY <1>1, <1>3, <1>4, NoCopyWaits DEF IInv, PromiseKept

LEMMA StepPreserves == IInv /\ [Next]_vars => IInv'
<1> SUFFICES ASSUME IInv, [Next]_vars PROVE IInv'
  OBVIOUS
<1>1. ASSUME NEW k \in Kernels, Launches(k) PROVE IInv'
  <2>1. PICK args \in [1 .. Arity[k] -> Tensors] :
          LaunchKernel(k, args) \/ LaunchFails(k, args)
    BY <1>1 DEF Launches
  <2> QED
    BY <2>1, LaunchStep, LaunchFailsKeeps
<1>2. ASSUME NEW t \in Tensors, NEW direction \in Copies, Copy(direction, t) PROVE IInv'
  BY <1>2, CopyStep
<1>3. ASSUME NEW t \in Tensors, TensorFree(t) PROVE IInv'
  BY <1>3, TensorFreeKeeps
<1>4. ASSUME NEW t \in Tensors, NEW p \in Blocks, AllocFromPool(t, p) PROVE IInv'
  BY <1>4, AllocFromPoolKeeps
<1>5. ASSUME NEW t \in Tensors, NEW p \in Blocks, NEW v \in Values, AllocFromBackend(t, p, v)
      PROVE  IInv'
  BY <1>5, AllocFromBackendKeeps
<1>6. ASSUME NEW v \in Values, HostWrite(v) PROVE IInv'
  BY <1>6, HostWriteKeeps
<1>7. CASE DriverSubmit \/ Sync \/ Return
  BY <1>7, WaitingKeeps
<1>8. CASE DeviceStep
  BY <1>8, DeviceStepKeeps
<1>9. CASE UNCHANGED vars
  BY <1>9 DEF vars, IInv, TypeOK, BoundTo, Exclusive, CopiesBlock, PromiseKept, Resident, Held
<1> QED
  BY <1>1, <1>2, <1>3, <1>4, <1>5, <1>6, <1>7, <1>8, <1>9 DEF Next, HostNext

\* In every behaviour of the OpenCL backend the queue, once run, leaves the
\* device's memory as the accepted calls promised, whatever blocks have changed
\* hands and whatever kernel arguments have been bound again in the meantime.
THEOREM Invariance == Spec => []IInv
  BY InitEstablishes, StepPreserves, PTL DEF Spec

\* The state of the backend and its queue keeps its type (opencl_launch_kernel(),
\* the copies and opencl_sync() of the OpenCL backend).
THEOREM TypeCorrectness == Spec => []TypeOK
<1>1. IInv => TypeOK
  BY DEF IInv
<1> QED
  BY <1>1, Invariance, PTL

\* opencl_sync() returns with everything launched before it in the device's memory.
THEOREM SyncSettlesHolds == Spec => SyncSettles
<1>1. ASSUME IInv, IInv', [Next]_vars, call = "sync", call' = "none"
      PROVE  content' = promised'
  <2>1. Return
    BY <1>1 DEF Next, HostNext, Launches, LaunchKernel, LaunchFails, Launchable, Copy,
      TensorFree, AllocFromPool, AllocFromBackend, HostWrite, Sync, DeviceStep,
      DriverSubmit, Idle, vars
  <2>2. queue' = <<>>
    BY <1>1, <2>1 DEF Return, Finished
  <2>3. Leads(<<>>, content', promised', host') /\ content' \in Memories
    BY <1>1, <2>2 DEF IInv, PromiseKept, TypeOK, Memories
  <2> QED
    BY <2>3, LeadsNowhere
<1>2. IInv /\ IInv' /\ [Next]_vars =>
        [call = "sync" /\ call' = "none" => content' = promised']_vars
  BY <1>1
<1> QED
  BY <1>2, Invariance, PTL DEF Spec, SyncSettles

-----------------------------------------------------------------------------
(***************************************************************************)
(* The refinement                                                          *)
(***************************************************************************)

Seen == [t \in Tensors |-> ValueOf(t)]

LEMMA SeenFields ==
  ASSUME IInv
  PROVE  /\ \A t \in Resident : block[t] \in Blocks /\ Seen[t] = promised[block[t]]
                             /\ Seen[t] \in Values
         /\ \A t \in Tensors \ Resident : Seen[t] = NoValue
         /\ Device!Allocated = Resident
<1>1. block \in [Tensors -> Blocks \cup {NoBlock}] /\ promised \in [Blocks -> Values]
  BY DEF IInv, TypeOK
<1>2. \A t \in Resident : block[t] \in Blocks /\ Seen[t] = promised[block[t]]
                       /\ Seen[t] \in Values
  BY <1>1 DEF Seen, ValueOf, Resident
<1>3. \A t \in Tensors \ Resident : Seen[t] = NoValue
  BY DEF Seen, ValueOf
<1>4. Device!Allocated = {t \in Tensors : Seen[t] # NoValue}
  BY DEF Device!Allocated, Seen
<1>5. Resident \subseteq Tensors
  BY DEF Resident
<1> HIDE DEF Seen
<1>6. Device!Allocated = Resident
  BY <1>2, <1>3, <1>4, <1>5, NoValueAssumption
<1> QED
  BY <1>2, <1>3, <1>6

LEMMA InitRefines == Init => Device!Init
BY DEF Init, Device!Init, ValueOf, Resident, Awaited

\* No download is in progress while only kernels wait, nor if nothing is enqueued.
LEMMA NothingAwaited ==
  ASSUME IInv, Idle
  PROVE  /\ Awaited = NoValue /\ Device!Ready
         /\ UNCHANGED queue => Awaited' = NoValue
<1>1. queue = <<>> \/ Len(queue) \in 1 .. Len(queue)
  BY DEF IInv, TypeOK
<1>2. queue = <<>> \/ Last(queue).op \in Kernels
  BY <1>1, IdleQueue DEF KernelsOnly, Last
<1>3. "read" \notin Kernels
  BY KernelsAssumption DEF Copies
<1>4. ~(queue # <<>> /\ Last(queue).op = "read")
  BY <1>2, <1>3
<1>5. UNCHANGED queue => ~(queue' # <<>> /\ Last(queue').op = "read")
  BY <1>4
<1> QED
  BY <1>4, <1>5 DEF Awaited, Device!Ready

\* What is awaited when a command has just been enqueued.
LEMMA AwaitedAfterEnqueue ==
  ASSUME IInv, NEW c \in Commands, Enqueue(c)
  PROVE  Awaited' = IF c.op = "read" THEN promised'[c.args[1]] ELSE NoValue
<1>1. queue \in Seq(Commands) /\ queue' = Append(queue, c)
  BY DEF IInv, TypeOK, Enqueue
<1>2. queue' # <<>> /\ Last(queue') = c
  BY <1>1 DEF Last
<1> QED
  BY <1>2 DEF Awaited

\* Nothing is written to a tensor but the one whose block a command names.
LEMMA SeenAfterWrite ==
  ASSUME IInv, UNCHANGED block, NEW t \in Resident, NEW x,
         promised' = [promised EXCEPT ![block[t]] = x]
  PROVE  Seen' = [Seen EXCEPT ![t] = x]
<1>1. promised \in [Blocks -> Values] /\ Resident' = Resident /\ Resident \subseteq Tensors
  BY DEF IInv, TypeOK, Resident
<1>2. \A u \in Resident : block[u] \in Blocks /\ (block[u] = block[t] => u = t)
  BY SeenFields DEF IInv, Exclusive
<1>3. ASSUME NEW u \in Tensors PROVE Seen'[u] = IF u = t THEN x ELSE Seen[u]
  <2>1. CASE u \in Resident
    BY <1>1, <1>2, <2>1 DEF Seen, ValueOf
  <2>2. CASE u \notin Resident
    BY <1>1, <2>2 DEF Seen, ValueOf
  <2> QED
    BY <2>1, <2>2
<1>4. Seen' = [u \in Tensors |-> Seen'[u]] /\ Seen = [u \in Tensors |-> Seen[u]]
  BY DEF Seen
<1> HIDE DEF Seen
<1> QED
  BY <1>3, <1>4

\* A launch takes effect when it is called.
LEMMA LaunchRefines ==
  ASSUME IInv, NEW k \in Kernels, NEW args \in [1 .. Arity[k] -> Tensors],
         LaunchKernel(k, args)
  PROVE  Device!Launch(k, args)
<1> DEFINE t == args[Output[k]]
           x == Compute(k, [i \in 1 .. Arity[k] |-> Seen[args[i]]])
<1>1. /\ kernel_args'[k] = [i \in 1 .. Arity[k] |-> block[args[i]]]
      /\ [op |-> k, args |-> kernel_args'[k]] \in Commands
      /\ Enqueue([op |-> k, args |-> kernel_args'[k]])
      /\ \A i \in 1 .. Arity[k] : args[i] \in Resident
  BY LaunchedCommand
<1>2. Output[k] \in 1 .. Arity[k]
  BY KernelsAssumption
<1>3. promised' = [promised EXCEPT ![kernel_args'[k][Output[k]]] =
                    Compute(k, [i \in 1 .. Arity[k] |-> promised[kernel_args'[k][i]]])]
  BY <1>1 DEF Enqueue, Effect
<1>4. [i \in 1 .. Arity[k] |-> promised[kernel_args'[k][i]]]
        = [i \in 1 .. Arity[k] |-> Seen[args[i]]]
  BY <1>1, SeenFields
<1>5. kernel_args'[k][Output[k]] = block[t]
  BY <1>1, <1>2
<1>6. promised' = [promised EXCEPT ![block[t]] = x]
  BY <1>3, <1>4, <1>5
<1>7. t \in Resident /\ UNCHANGED block /\ UNCHANGED host
  BY <1>1, <1>2 DEF LaunchKernel
<1> HIDE DEF t, x
<1>8. Seen' = [Seen EXCEPT ![t] = x]
  BY <1>6, <1>7, SeenAfterWrite
<1>9. \A i \in 1 .. Arity[k] : args[i] \in Device!Allocated
  BY <1>1, SeenFields
<1>10. Device!Ready /\ Awaited = NoValue
  BY NothingAwaited DEF LaunchKernel, Launchable
<1>11. Awaited' = NoValue
  <2>1. k # "read"
    BY KernelsAssumption DEF Copies
  <2> QED
    BY <1>1, <2>1, AwaitedAfterEnqueue
<1> QED
  BY <1>7, <1>8, <1>9, <1>10, <1>11 DEF Device!Launch, Seen, t, x

\* An upload takes effect when it is called; a download is asked for.
LEMMA CopyRefines ==
  ASSUME IInv, NEW direction \in Copies, NEW t \in Tensors, Copy(direction, t)
  PROVE  Device!Upload(t) \/ Device!Download(t)
<1> DEFINE c == [op |-> direction, args |-> [i \in 1 .. 1 |-> block[t]]]
<1>1. t \in Resident /\ UNCHANGED block /\ UNCHANGED host /\ Enqueue(c) /\ Idle
  BY DEF Copy
<1>2. direction \notin Kernels
  BY KernelsAssumption
<1>3. t \in Device!Allocated /\ Device!Ready /\ Awaited = NoValue
  BY <1>1, SeenFields, NothingAwaited
<1>4. Awaited' = IF direction = "read" THEN promised'[block[t]] ELSE NoValue
  <2>1. block[t] \in Blocks
    BY <1>1, SeenFields
  <2>2. [i \in 1 .. 1 |-> block[t]] \in ArgsOf(direction)
    BY <1>2, <2>1 DEF ArgsOf
  <2>3. c \in Commands
    BY <2>2, CommandMade
  <2> QED
    BY <1>1, <2>3, AwaitedAfterEnqueue
<1>5. CASE direction = "write"
  <2>1. promised' = [promised EXCEPT ![block[t]] = host]
    BY <1>1, <1>2, <1>5 DEF Enqueue, Effect
  <2>2. Seen' = [Seen EXCEPT ![t] = host]
    BY <1>1, <2>1, SeenAfterWrite
  <2>3. Awaited' = NoValue
    BY <1>4, <1>5
  <2> QED
    BY <1>1, <1>3, <2>2, <2>3 DEF Device!Upload, Seen
<1>6. CASE direction = "read"
  <2>1. UNCHANGED promised
    BY <1>1, <1>2, <1>6 DEF Enqueue, Effect
  <2>2. UNCHANGED Seen
    BY <1>1, <2>1 DEF Seen, ValueOf, Resident
  <2>3. Awaited' = Seen[t]
    BY <1>1, <1>4, <1>6, <2>1, SeenFields
  <2> QED
    BY <1>1, <1>3, <2>2, <2>3 DEF Device!Download, Seen
<1> QED
  BY <1>5, <1>6 DEF Copies

\* A download returns when its command, the last one, has run: the device's memory
\* is then as promised.
LEMMA DeviceStepRefines ==
  ASSUME IInv, DeviceStep
  PROVE  Device!Downloaded \/ UNCHANGED <<Seen, Awaited, host>>
<1>1. /\ Len(queue) \in Nat \ {0} /\ queue[1] \in Commands
      /\ content' = Effect(queue[1], content, host)
      /\ host' = IF queue[1].op = "read" THEN content[queue[1].args[1]] ELSE host
      /\ UNCHANGED <<block, promised>>
      /\ queue' \in Seq(Commands)
      /\ Len(queue') = Len(queue) - 1
      /\ \A i \in 1 .. Len(queue') : queue'[i] = queue[i + 1]
  BY HeadRuns
<1>2. UNCHANGED Seen
  BY <1>1 DEF Seen, ValueOf, Resident
<1>3. queue # <<>>
  BY <1>1
<1>4. CASE Len(queue) = 1
  <2>1. queue' = <<>> /\ Last(queue) = queue[1]
    BY <1>1, <1>4 DEF Last
  <2>2. content' = promised'
    <3>1. Leads(<<>>, content', promised', host') /\ content' \in Memories
      BY <2>1, DeviceStepKeeps DEF IInv, PromiseKept, TypeOK, Memories
    <3> QED
      BY <3>1, LeadsNowhere
  <2>3. Awaited' = NoValue
    BY <2>1 DEF Awaited
  <2>4. CASE queue[1].op = "read"
    <3>1. queue[1].op \in Copies /\ queue[1].op \notin Kernels
      BY <2>4, KernelsAssumption DEF Copies
    <3>2. content' = content
      BY <1>1, <2>4, <3>1 DEF Effect
    <3>3. Awaited = promised[queue[1].args[1]]
      BY <1>3, <2>1, <2>4 DEF Awaited
    <3>4. host' = Awaited
      BY <1>1, <2>2, <2>4, <3>2, <3>3
    <3>5. Awaited \in Values
      <4>1. queue[1].args[1] \in Held
        BY <1>1, <3>1, CopyIsAlone
      <4>2. Held \subseteq Blocks /\ promised \in [Blocks -> Values]
        BY DEF Held, Resident, IInv, TypeOK
      <4> QED
        BY <3>3, <4>1, <4>2
    <3> QED
      BY <1>2, <2>3, <3>4, <3>5, NoValueAssumption DEF Device!Downloaded, Device!Ready, Seen
  <2>5. CASE queue[1].op # "read"
    BY <1>1, <1>2, <2>1, <2>3, <2>5 DEF Awaited
  <2> QED
    BY <2>4, <2>5
<1>5. CASE Len(queue) # 1
  <2>1. queue[1].op # "read"
    BY <1>1, <1>5, CopyIsAlone DEF Copies
  <2>2. queue' # <<>> /\ Last(queue') = Last(queue)
    <3>1. Len(queue') \in 1 .. Len(queue') /\ Len(queue') + 1 = Len(queue)
      BY <1>1, <1>5
    <3>2. queue'[Len(queue')] = queue[Len(queue)]
      BY <1>1, <3>1
    <3>3. queue' # <<>>
      BY <3>1
    <3> QED
      BY <3>2, <3>3 DEF Last
  <2>3. UNCHANGED Awaited
    BY <1>1, <1>3, <2>2 DEF Awaited
  <2> QED
    BY <1>1, <1>2, <2>1, <2>3
<1> QED
  BY <1>4, <1>5

\* A block handed on from the pool is a tensor of arbitrary content.
LEMMA AllocRefines ==
  ASSUME IInv, NEW t \in Tensors, NEW p \in Blocks,
         AllocFromPool(t, p) \/ \E v \in Values : AllocFromBackend(t, p, v)
  PROVE  \E v \in Values : Device!Allocate(t, v)
<1>1. PICK w \in Values \cup {promised[p]} :
        /\ t \notin Resident /\ block' = [block EXCEPT ![t] = p] /\ UNCHANGED host
        /\ Idle /\ UNCHANGED queue
        /\ \/ UNCHANGED promised /\ w = promised[p]
           \/ p \notin Held /\ promised' = [promised EXCEPT ![p] = w]
  BY DEF AllocFromPool, AllocFromBackend
<1>2. /\ block \in [Tensors -> Blocks \cup {NoBlock}] /\ promised \in [Blocks -> Values]
  BY DEF IInv, TypeOK
<1>3. w \in Values /\ promised'[p] = w
  BY <1>1, <1>2
<1>4. \A u \in Tensors : block'[u] = IF u = t THEN p ELSE block[u]
  BY <1>1, <1>2
<1>5. Resident' = Resident \cup {t}
  BY <1>2, <1>4, NoBlockAssumption DEF Resident
<1>6. ASSUME NEW u \in Resident PROVE u \in Tensors /\ promised'[block[u]] = promised[block[u]]
  BY <1>1, <1>2, <1>6 DEF Held, Resident
<1>7. ASSUME NEW u \in Tensors PROVE Seen'[u] = IF u = t THEN w ELSE Seen[u]
  <2>1. CASE u = t
    BY <1>3, <1>4, <1>5, <2>1 DEF Seen, ValueOf
  <2>2. CASE u # t /\ u \in Resident
    BY <1>4, <1>5, <1>6, <2>2 DEF Seen, ValueOf
  <2>3. CASE u # t /\ u \notin Resident
    BY <1>5, <2>3 DEF Seen, ValueOf
  <2> QED
    BY <2>1, <2>2, <2>3
<1>8. Seen' = [Seen EXCEPT ![t] = w]
  <2>1. Seen' = [u \in Tensors |-> Seen'[u]] /\ Seen = [u \in Tensors |-> Seen[u]]
    BY DEF Seen
  <2> HIDE DEF Seen
  <2> QED
    BY <1>7, <2>1
<1>9. t \notin Device!Allocated
  BY <1>1, SeenFields
<1>10. Device!Ready /\ Awaited = NoValue /\ Awaited' = NoValue
  BY <1>1, NothingAwaited
<1> QED
  BY <1>1, <1>3, <1>8, <1>9, <1>10 DEF Device!Allocate, Seen

LEMMA FreeRefines ==
  ASSUME IInv, NEW t \in Tensors, TensorFree(t)
  PROVE  Device!Deallocate(t)
<1>1. /\ t \in Resident /\ block' = [block EXCEPT ![t] = NoBlock]
      /\ UNCHANGED promised /\ UNCHANGED host /\ UNCHANGED queue /\ Idle
  BY DEF TensorFree
<1>2. block \in [Tensors -> Blocks \cup {NoBlock}]
  BY DEF IInv, TypeOK
<1>3. \A u \in Tensors : block'[u] = IF u = t THEN NoBlock ELSE block[u]
  BY <1>1, <1>2
<1>4. Resident' = Resident \ {t}
  BY <1>2, <1>3 DEF Resident
<1>5. ASSUME NEW u \in Tensors PROVE Seen'[u] = IF u = t THEN NoValue ELSE Seen[u]
  BY <1>1, <1>3, <1>4 DEF Seen, ValueOf
<1>6. Seen' = [Seen EXCEPT ![t] = NoValue]
  <2>1. Seen' = [u \in Tensors |-> Seen'[u]] /\ Seen = [u \in Tensors |-> Seen[u]]
    BY DEF Seen
  <2> HIDE DEF Seen
  <2> QED
    BY <1>5, <2>1
<1>7. t \in Device!Allocated
  BY <1>1, SeenFields
<1>8. Device!Ready /\ Awaited = NoValue /\ Awaited' = NoValue
  BY <1>1, NothingAwaited
<1> QED
  BY <1>1, <1>6, <1>7, <1>8 DEF Device!Deallocate, Seen

LEMMA HostWriteRefines ==
  ASSUME IInv, NEW v \in Values, HostWrite(v)
  PROVE  Device!HostWrite(v)
<1>1. /\ host' = v /\ Idle /\ UNCHANGED queue
      /\ UNCHANGED block /\ UNCHANGED promised
  BY DEF HostWrite
<1>2. UNCHANGED Seen
  BY <1>1 DEF Seen, ValueOf, Resident
<1>3. Device!Ready /\ Awaited = NoValue /\ Awaited' = NoValue
  BY <1>1, NothingAwaited
<1> QED
  BY <1>1, <1>2, <1>3 DEF Device!HostWrite, Seen

LEMMA StepRefines == IInv /\ [Next]_vars => [Device!Next]_(Device!vars)
<1> SUFFICES ASSUME IInv, [Next]_vars
             PROVE  Device!Next \/ UNCHANGED <<Seen, Awaited, host>>
  BY DEF Device!vars, Seen
<1>1. ASSUME NEW k \in Kernels, Launches(k) PROVE Device!Next \/ UNCHANGED <<Seen, Awaited, host>>
  <2>1. PICK args \in [1 .. Arity[k] -> Tensors] :
          LaunchKernel(k, args) \/ LaunchFails(k, args)
    BY <1>1 DEF Launches
  <2>2. CASE LaunchKernel(k, args)
    BY <2>2, LaunchRefines DEF Device!Next
  <2>3. CASE LaunchFails(k, args)
    BY <2>3 DEF LaunchFails, Seen, ValueOf, Resident, Awaited
  <2> QED
    BY <2>1, <2>2, <2>3
<1>2. ASSUME NEW t \in Tensors, NEW direction \in Copies, Copy(direction, t)
      PROVE  Device!Next \/ UNCHANGED <<Seen, Awaited, host>>
  BY <1>2, CopyRefines DEF Device!Next
<1>3. ASSUME NEW t \in Tensors, TensorFree(t) PROVE Device!Next
  BY <1>3, FreeRefines DEF Device!Next
<1>4. ASSUME NEW t \in Tensors, NEW p \in Blocks,
             AllocFromPool(t, p) \/ \E v \in Values : AllocFromBackend(t, p, v)
      PROVE  Device!Next
  BY <1>4, AllocRefines DEF Device!Next
<1>5. ASSUME NEW v \in Values, HostWrite(v) PROVE Device!Next
  BY <1>5, HostWriteRefines DEF Device!Next
<1>6. CASE DriverSubmit \/ Sync \/ Return \/ UNCHANGED vars
  BY <1>6 DEF DriverSubmit, Sync, Return, vars, Seen, ValueOf, Resident, Awaited
<1>7. CASE DeviceStep
  BY <1>7, DeviceStepRefines DEF Device!Next
<1> QED
  BY <1>1, <1>2, <1>3, <1>4, <1>5, <1>6, <1>7 DEF Next, HostNext

\* The asynchronous OpenCL backend, with a queue of any length, implements the
\* device that does everything at once.
THEOREM Refinement == Spec => ImplementsSyncDevice
BY InitRefines, StepRefines, Invariance, PTL DEF Spec, ImplementsSyncDevice, Device!Spec

-----------------------------------------------------------------------------
(***************************************************************************)
(* Calls come to an end                                                    *)
(***************************************************************************)

\* How many more steps the device, the driver and the host can make before the
\* call in progress is over.
StepsLeft == 2 * Len(queue) - submitted + (IF Idle THEN 0 ELSE 1)

\* A call in progress makes no step for nothing, and it begins with few to make.
CallsProgress == [][~Idle => StepsLeft' < StepsLeft]_vars
StepsBounded == StepsLeft \in 0 .. 2 * Len(queue) + 1

\* What the host thread is blocked for is finished, or the device has been given
\* something to do.
NeverStuck == ~Idle => Finished \/ submitted > 0

\* A blocking call has made the driver pass on everything.
Flushed == ~Idle => submitted = Len(queue)

LEMMA FlushedStep ==
  ASSUME IInv, Flushed, [Next]_vars
  PROVE  Flushed'
<1>1. queue \in Seq(Commands) /\ submitted \in 0 .. Len(queue) /\ Len(queue) \in Nat
  BY DEF IInv, TypeOK
<1>2. ASSUME NEW t \in Tensors, NEW direction \in Copies, Copy(direction, t) PROVE Flushed'
  <2>1. /\ queue' = Append(queue, [op |-> direction, args |-> [i \in 1 .. 1 |-> block[t]]])
        /\ submitted' = Len(queue) + 1
    BY <1>2 DEF Copy, Enqueue
  <2>2. Len(queue') = Len(queue) + 1
    BY <1>1, <2>1
  <2> QED
    BY <2>1, <2>2 DEF Flushed
<1>3. CASE Sync
  BY <1>3 DEF Sync, Flushed
<1>4. CASE DeviceStep
  <2>1. Len(queue') = Len(queue) - 1 /\ submitted' = submitted - 1 /\ call' = call
    BY <1>4, HeadRuns
  <2> QED
    BY <1>1, <2>1 DEF Flushed, Idle
<1>5. CASE DriverSubmit
  BY <1>1, <1>5 DEF DriverSubmit, Flushed, Idle
<1>6. CASE Return
  BY <1>6 DEF Return, Flushed, Idle
<1>7. CASE UNCHANGED vars
  BY <1>7 DEF vars, Flushed, Idle
<1>8. ASSUME Idle, call' = call PROVE Flushed'
  BY <1>8 DEF Flushed, Idle
<1> QED
  BY <1>2, <1>3, <1>4, <1>5, <1>6, <1>7, <1>8
  DEF Next, HostNext, Launches, LaunchKernel, LaunchFails, Launchable, TensorFree,
    AllocFromPool, AllocFromBackend, HostWrite

\* The finite half of CallsReturn: whoever waits waits for a device that has work,
\* and every step made meanwhile brings the end nearer.
THEOREM CallsEnd == Spec => CallsProgress /\ []StepsBounded /\ []NeverStuck
<1>1. ASSUME IInv, [Next]_vars, ~Idle, ~UNCHANGED vars
      PROVE  StepsLeft' < StepsLeft
  <2>1. queue \in Seq(Commands) /\ submitted \in 0 .. Len(queue) /\ Len(queue) \in Nat
    BY <1>1 DEF IInv, TypeOK
  <2>2. DeviceStep \/ DriverSubmit \/ Return
    BY <1>1 DEF Next, HostNext, Launches, LaunchKernel, LaunchFails, Launchable, Copy, Sync,
      TensorFree, AllocFromPool, AllocFromBackend, HostWrite
  <2>3. CASE DeviceStep
    <3>1. Len(queue') = Len(queue) - 1 /\ submitted' = submitted - 1 /\ call' = call
      BY <1>1, <2>3, HeadRuns
    <3> QED
      BY <2>1, <3>1 DEF StepsLeft, Idle
  <2>4. CASE DriverSubmit
    BY <2>1, <2>4 DEF DriverSubmit, StepsLeft, Idle
  <2>5. CASE Return
    BY <1>1, <2>1, <2>5 DEF Return, StepsLeft, Idle
  <2> QED
    BY <2>2, <2>3, <2>4, <2>5
<1>2. IInv /\ [Next]_vars => [~Idle => StepsLeft' < StepsLeft]_vars
  BY <1>1
<1>3. IInv => StepsBounded
  <2> SUFFICES ASSUME IInv PROVE StepsBounded
    OBVIOUS
  <2>1. submitted \in 0 .. Len(queue) /\ Len(queue) \in Nat
    BY DEF IInv, TypeOK
  <2> QED
    BY <2>1 DEF StepsBounded, StepsLeft
<1>4. Init => Flushed
  BY DEF Init, Flushed, Idle
<1>5. IInv /\ Flushed /\ [Next]_vars => Flushed'
  BY FlushedStep
<1>6. IInv /\ Flushed => NeverStuck
  <2> SUFFICES ASSUME IInv, Flushed, ~Idle, ~Finished PROVE submitted > 0
    BY DEF NeverStuck
  <2>1. queue \in Seq(Commands) /\ submitted = Len(queue) /\ Len(queue) \in Nat
    BY DEF IInv, TypeOK, Flushed
  <2>2. queue # <<>>
    BY <2>1 DEF Finished
  <2> QED
    BY <2>1, <2>2
<1> QED
  BY <1>2, <1>3, <1>4, <1>5, <1>6, Invariance, PTL DEF Spec, CallsProgress

=============================================================================
