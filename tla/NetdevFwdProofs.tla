-------------------------- MODULE NetdevFwdProofs ---------------------------
(***************************************************************************)
(* What NetdevFwd.tla promises, for every number of connections, blocks    *)
(* and segments.  The struct of a connection belongs to its thread until   *)
(* the thread frees it, and the tcpip thread reaches it through tcp_arg    *)
(* without a lock: the invariant says who may still hold the pointer, what *)
(* the flags of the struct mean to the other side, and how much of each    *)
(* direction is on its way.                                                *)
(***************************************************************************)
EXTENDS NetdevFwd, TLAPS

Callbacks == {"detach", "recv", "write", "fin", "shut_wr", "err", "shut_rdwr"}
Places    == {"none", "check", "read", "inner", "wait", "ok", "mem", "err",
              "end", "unhook", "post", "close", "forget", "free", "gone"}
Tcpip     == [at : {"idle", "connect"} \cup Callbacks, conn : Conns \cup {None}, left : Nat]
Jobs      == [job : {"listen", "write", "close"}, conn : Conns \cup {None}]
Conn      == [own : Conns \cup {None}, pcb : BOOLEAN, fd : BOOLEAN, alive : BOOLEAN]

TypeOK ==
  /\ s_enabled \in BOOLEAN /\ s_listening \in BOOLEAN
  /\ mbox \in Seq(Jobs)
  /\ tcpip \in Tcpip
  /\ pcb \in [Conns -> {"none", "open", "closing", "freed"}]
  /\ arg \in [Conns -> Blocks \cup {None}]
  /\ up \in [Conns -> [sent : Nat, fin : BOOLEAN]]
  /\ mem \in [Blocks -> Conn]
  /\ thread \in [Conns -> Places]
  /\ block \in [Conns -> Blocks \cup {None}]
  /\ buf \in [Conns -> Seq(Nat)]
  /\ sock \in [Conns -> {"none", "open", "closed"}]
  /\ shut \in [Conns -> {"no", "wr", "rdwr"}]
  /\ down \in [Conns -> [sent : Nat, read : Nat]]
  /\ eof \in [Conns -> BOOLEAN]
  /\ hostGot \in [Conns -> Seq(Nat)]
  /\ espGot \in [Conns -> Seq(Nat)]
  /\ lost \in [Conns -> BOOLEAN]
  /\ fate \in {"running", "undefined", "killed"}

(***************************************************************************)
(* The invariant, for each connection k.                                   *)
(***************************************************************************)
\* The struct of k is allocated: from AcceptSplices to FreeConn.
Live(k) == thread[k] \notin {"none", "gone"}

\* The struct of a connection is its own until its thread frees it, and its
\* callbacks get no struct but the one the thread was started with.
Owns(k) ==
  /\ Live(k) => block[k] \in Blocks /\ mem[block[k]].own = k
  /\ \A b \in Blocks : mem[b].own = k => Live(k) /\ block[k] = b
  /\ arg[k] # None => arg[k] = block[k] /\ thread[k] # "none" /\ block[k] \in Blocks

\* A callback that runs has a struct; netdev_err runs after the pcb is gone.
Called(k) ==
  /\ tcpip.conn = k => tcpip.at # "idle"
  /\ tcpip.conn = k /\ tcpip.at = "connect" => thread[k] = "none" /\ pcb[k] # "none"
  /\ tcpip.conn = k /\ tcpip.at \in Callbacks => arg[k] # None
  /\ tcpip.conn = k /\ tcpip.at = "err" => pcb[k] = "freed"

\* What the flags of the struct say: c->pcb is NULL before the thread has come to
\* post close_pcb_cb only when lwIP has freed the pcb, and not with c->alive set;
\* past the loop c->alive is clear; c->host_fd is valid until the socket is closed.
Flags(k) ==
  Live(k) =>
    /\ thread[k] \notin {"close", "forget", "free"} /\ ~mem[block[k]].pcb
         => pcb[k] = "freed" /\ ~mem[block[k]].alive
    /\ thread[k] \in {"unhook", "post", "close", "forget", "free"} => ~mem[block[k]].alive
    /\ thread[k] # "free" => mem[block[k]].fd

\* Once the thread is past that post, a pcb that is still open has its close_pcb_cb
\* in the mailbox, or it could not be posted.
Closes(k) ==
  /\ pcb[k] = "none" => thread[k] = "none"
  /\ thread[k] \in {"close", "forget", "free", "gone"} /\ pcb[k] = "open"
       => Queued("close", k) \/ lost[k]
  /\ thread[k] \in {"forget", "free", "gone"} => sock[k] = "closed"

\* At most one tcp_write of connection k is in the mailbox.
Once(k) ==
  \A i, j \in DOMAIN mbox :
    mbox[i] = [job |-> "write", conn |-> k] /\ mbox[j] = mbox[i] => i = j

\* The thread of a connection waits while its tcp_write is in the mailbox.
Waits(k) == Once(k) /\ (Queued("write", k) => thread[k] = "wait")

\* Segments of the pbuf chain netdev_recv is still to write for k.
Chain(k) ==
  IF tcpip.at \in {"recv", "write"} /\ tcpip.conn = k THEN tcpip.left ELSE 0

\* While c->alive is set, nothing the ESP sent was dropped; nor before a write that has
\* begun, even if the thread has cleared c->alive since.
Uplink(k) ==
  /\ thread[k] = "none" => up[k].sent = 0 /\ hostGot[k] = <<>>
  /\ Live(k) /\ mem[block[k]].alive => Len(hostGot[k]) + Chain(k) = up[k].sent
  /\ tcpip.at = "write" /\ tcpip.conn = k
       => tcpip.left > 0 /\ Len(hostGot[k]) + tcpip.left = up[k].sent
  /\ \A i \in 1..Len(hostGot[k]) : hostGot[k][i] = i

\* The buffer of the thread holds what follows the segments the pcb was given.
InOrder(k) ==
  /\ Len(espGot[k]) + Len(buf[k]) = down[k].read
  /\ \A i \in 1..Len(buf[k]) : buf[k][i] = Len(espGot[k]) + i

\* While c->alive is set nothing the host sent was dropped; a write that is under way
\* when it is cleared is still in order.
Downlink(k) ==
  /\ thread[k] = "none" => down[k].read = 0 /\ espGot[k] = <<>> /\ sock[k] = "none"
  /\ thread[k] \in {"none", "check", "read"} => buf[k] = <<>>
  /\ thread[k] \in {"check", "read", "inner"} /\ mem[block[k]].alive => InOrder(k)
  /\ thread[k] \in {"wait", "mem", "err"} => InOrder(k)
  /\ thread[k] = "ok" => Len(espGot[k]) = down[k].read
  /\ \A i \in 1..Len(espGot[k]) : espGot[k][i] = i

ConnInv(k) ==
  Owns(k) /\ Called(k) /\ Flags(k) /\ Closes(k) /\ Waits(k) /\ Uplink(k) /\ Downlink(k)

IInv == TypeOK /\ \A k \in Conns : ConnInv(k)

-----------------------------------------------------------------------------
(***************************************************************************)
(* What the operators of the model do to a struct and to the mailbox.      *)
(***************************************************************************)
\* The flags of block b become pcb = p, fd = f and alive = a, and nothing else of mem
\* changes.
Turns(b, p, f, a) ==
  /\ mem' \in [Blocks -> Conn]
  /\ mem'[b].own = mem[b].own /\ mem'[b].pcb = p /\ mem'[b].fd = f /\ mem'[b].alive = a
  /\ \A x \in Blocks : x # b => mem'[x] = mem[x]

\* A struct is a record of four fields.
LEMMA ConnFacts ==
  ASSUME NEW s \in Conn
  PROVE  /\ s.own \in Conns \cup {None} /\ s.pcb \in BOOLEAN
         /\ s.fd \in BOOLEAN /\ s.alive \in BOOLEAN
         /\ \A v \in BOOLEAN :
              /\ [s EXCEPT !["alive"] = v]
                   = [own |-> s.own, pcb |-> s.pcb, fd |-> s.fd, alive |-> v]
              /\ [s EXCEPT !["pcb"] = v]
                   = [own |-> s.own, pcb |-> v, fd |-> s.fd, alive |-> s.alive]
              /\ [s EXCEPT !["fd"] = v]
                   = [own |-> s.own, pcb |-> s.pcb, fd |-> v, alive |-> s.alive]
BY DEF Conn

\* c->alive = 0.
LEMMA PutAlive ==
  ASSUME mem \in [Blocks -> Conn], NEW b \in Blocks,
         mem' = Put(b, "alive", FALSE)
  PROVE  Turns(b, mem[b].pcb, mem[b].fd, FALSE)
<1> DEFINE s ==
      [own |-> mem[b].own, pcb |-> mem[b].pcb, fd |-> mem[b].fd, alive |-> FALSE]
<1>1. mem[b] \in Conn
  OBVIOUS
<1>2. s \in Conn
  BY <1>1, ConnFacts DEF Conn
<1>3. mem' = [mem EXCEPT ![b] = s]
  BY <1>1, ConnFacts DEF Put
<1>4. s.own = mem[b].own /\ s.pcb = mem[b].pcb /\ s.fd = mem[b].fd /\ s.alive = FALSE
  OBVIOUS
<1> HIDE DEF s
<1>5. QED
  BY <1>2, <1>3, <1>4 DEF Turns

\* c->pcb = NULL.
LEMMA PutPcb ==
  ASSUME mem \in [Blocks -> Conn], NEW b \in Blocks,
         mem' = Put(b, "pcb", FALSE)
  PROVE  Turns(b, FALSE, mem[b].fd, mem[b].alive)
<1> DEFINE s ==
      [own |-> mem[b].own, pcb |-> FALSE, fd |-> mem[b].fd, alive |-> mem[b].alive]
<1>1. mem[b] \in Conn
  OBVIOUS
<1>2. s \in Conn
  BY <1>1, ConnFacts DEF Conn
<1>3. mem' = [mem EXCEPT ![b] = s]
  BY <1>1, ConnFacts DEF Put
<1>4. s.own = mem[b].own /\ s.pcb = FALSE /\ s.fd = mem[b].fd /\ s.alive = mem[b].alive
  OBVIOUS
<1> HIDE DEF s
<1>5. QED
  BY <1>2, <1>3, <1>4 DEF Turns

\* c->host_fd = -1.
LEMMA PutFd ==
  ASSUME mem \in [Blocks -> Conn], NEW b \in Blocks,
         mem' = Put(b, "fd", FALSE)
  PROVE  Turns(b, mem[b].pcb, FALSE, mem[b].alive)
<1> DEFINE s ==
      [own |-> mem[b].own, pcb |-> mem[b].pcb, fd |-> FALSE, alive |-> mem[b].alive]
<1>1. mem[b] \in Conn
  OBVIOUS
<1>2. s \in Conn
  BY <1>1, ConnFacts DEF Conn
<1>3. mem' = [mem EXCEPT ![b] = s]
  BY <1>1, ConnFacts DEF Put
<1>4. s.own = mem[b].own /\ s.pcb = mem[b].pcb /\ s.fd = FALSE /\ s.alive = mem[b].alive
  OBVIOUS
<1> HIDE DEF s
<1>5. QED
  BY <1>2, <1>3, <1>4 DEF Turns

\* netdev_err: c->pcb = NULL and c->alive = 0.
LEMMA PutErr ==
  ASSUME mem \in [Blocks -> Conn], NEW b \in Blocks,
         mem' = [mem EXCEPT ![b].pcb = FALSE, ![b].alive = FALSE]
  PROVE  Turns(b, FALSE, mem[b].fd, FALSE)
<1> DEFINE s ==
      [own |-> mem[b].own, pcb |-> FALSE, fd |-> mem[b].fd, alive |-> FALSE]
<1>1. mem[b] \in Conn
  OBVIOUS
<1>2. s \in Conn
  BY <1>1, ConnFacts DEF Conn
<1>3. mem' = [mem EXCEPT ![b] = s]
  <2> DEFINE r == [mem[b] EXCEPT !["pcb"] = FALSE]
  <2>1. mem' = [mem EXCEPT ![b] = [r EXCEPT !["alive"] = FALSE]]
    OBVIOUS
  <2>2. r = [own |-> mem[b].own, pcb |-> FALSE, fd |-> mem[b].fd, alive |-> mem[b].alive]
    BY <1>1, ConnFacts
  <2>3. r \in Conn
    BY <1>1, <2>2, ConnFacts DEF Conn
  <2> HIDE DEF r
  <2>4. [r EXCEPT !["alive"] = FALSE]
          = [own |-> r.own, pcb |-> r.pcb, fd |-> r.fd, alive |-> FALSE]
    BY <2>3, ConnFacts
  <2>5. r.own = mem[b].own /\ r.pcb = FALSE /\ r.fd = mem[b].fd
    BY <2>2
  <2>6. QED
    BY <2>1, <2>4, <2>5
<1>4. s.own = mem[b].own /\ s.pcb = FALSE /\ s.fd = mem[b].fd /\ s.alive = FALSE
  OBVIOUS
<1> HIDE DEF s
<1>5. QED
  BY <1>2, <1>3, <1>4 DEF Turns

\* A stream that is continued where it ended is still in order.
LEMMA StreamFacts ==
  ASSUME NEW s \in Seq(Nat), \A i \in 1..Len(s) : s[i] = i,
         NEW t \in Seq(Nat), \A i \in 1..Len(t) : t[i] = Len(s) + i,
         NEW r, r = s \o t
  PROVE  Len(r) = Len(s) + Len(t) /\ \A i \in 1..Len(r) : r[i] = i
<1>1. Len(s) \in Nat /\ Len(t) \in Nat /\ Len(r) = Len(s) + Len(t)
  OBVIOUS
<1>2. ASSUME NEW i \in 1..Len(r) PROVE r[i] = i
  <2>1. i \in Nat /\ 1 <= i /\ i <= Len(s) + Len(t)
    BY <1>1
  <2>2. CASE i <= Len(s)
    BY <1>1, <2>1, <2>2
  <2>3. CASE i > Len(s)
    <3>1. i - Len(s) \in 1..Len(t) /\ Len(s) + (i - Len(s)) = i
      BY <1>1, <2>1, <2>3
    <3>2. r[i] = t[i - Len(s)]
      BY <1>1, <2>1, <2>3
    <3>3. QED
      BY <3>1, <3>2
  <2>4. QED
    BY <1>1, <2>1, <2>2, <2>3
<1>3. QED
  BY <1>1, <1>2

\* tcpip_callback: the job is in the mailbox, behind the others.
LEMMA PostFacts ==
  ASSUME mbox \in Seq(Jobs), NEW name \in {"listen", "write", "close"},
         NEW k \in Conns \cup {None}, Post(name, k)
  PROVE  /\ mbox' \in Seq(Jobs)
         /\ Queued(name, k)'
         /\ \A n, j : Queued(n, j) => Queued(n, j)'
         /\ \A n, j : Queued(n, j)' => Queued(n, j) \/ (n = name /\ j = k)
         /\ \A j : Once(j) /\ (name = "write" /\ j = k => ~Queued("write", j)) => Once(j)'
<1> DEFINE m == [job |-> name, conn |-> k]
<1>1. /\ m \in Jobs /\ Len(mbox) \in Nat /\ DOMAIN mbox = 1..Len(mbox)
      /\ mbox' = Append(mbox, m)
  BY DEF Post, Jobs
<1> HIDE DEF m
<1>2. /\ mbox' \in Seq(Jobs) /\ Len(mbox') = Len(mbox) + 1
      /\ DOMAIN mbox' = 1..(Len(mbox) + 1)
      /\ mbox'[Len(mbox) + 1] = m
      /\ \A i \in 1..Len(mbox) : mbox'[i] = mbox[i]
  BY <1>1
<1>3. Queued(name, k)'
  BY <1>1, <1>2 DEF Queued, m
<1>4. ASSUME NEW n, NEW j, Queued(n, j) PROVE Queued(n, j)'
  BY <1>1, <1>2, <1>4 DEF Queued
<1>5. ASSUME NEW n, NEW j, Queued(n, j)' PROVE Queued(n, j) \/ (n = name /\ j = k)
  <2>1. PICK i \in 1..(Len(mbox) + 1) : mbox'[i] = [job |-> n, conn |-> j]
    BY <1>2, <1>5 DEF Queued
  <2>2. CASE i \in 1..Len(mbox)
    BY <1>1, <1>2, <2>1, <2>2 DEF Queued
  <2>3. CASE i = Len(mbox) + 1
    <3>1. [job |-> n, conn |-> j] = [job |-> name, conn |-> k]
      BY <1>2, <2>1, <2>3 DEF m
    <3>2. QED
      BY <3>1
  <2>4. QED
    BY <1>1, <2>2, <2>3
<1>6. ASSUME NEW j, Once(j), name = "write" /\ j = k => ~Queued("write", j)
      PROVE  Once(j)'
  <2> SUFFICES ASSUME NEW x \in DOMAIN mbox', NEW y \in DOMAIN mbox',
                      mbox'[x] = [job |-> "write", conn |-> j], mbox'[y] = mbox'[x]
               PROVE  x = y
    BY DEF Once
  <2>1. CASE x \in 1..Len(mbox) /\ y \in 1..Len(mbox)
    BY <1>1, <1>2, <1>6, <2>1 DEF Once
  <2>2. CASE x = Len(mbox) + 1 /\ y = Len(mbox) + 1
    BY <2>2
  <2>3. CASE x \in 1..Len(mbox) /\ y = Len(mbox) + 1
    <3>1. [job |-> "write", conn |-> j] = [job |-> name, conn |-> k]
      BY <1>2, <2>3 DEF m
    <3>2. name = "write" /\ j = k /\ mbox[x] = [job |-> "write", conn |-> j]
      BY <1>2, <2>3, <3>1
    <3>3. QED
      BY <1>1, <1>6, <2>3, <3>2 DEF Queued
  <2>4. CASE y \in 1..Len(mbox) /\ x = Len(mbox) + 1
    <3>1. [job |-> "write", conn |-> j] = [job |-> name, conn |-> k]
      BY <1>2, <2>4 DEF m
    <3>2. name = "write" /\ j = k /\ mbox[y] = [job |-> "write", conn |-> j]
      BY <1>2, <2>4, <3>1
    <3>3. QED
      BY <1>1, <1>6, <2>4, <3>2 DEF Queued
  <2>5. QED
    BY <1>1, <1>2, <2>1, <2>2, <2>3, <2>4
<1>7. QED
  BY <1>2, <1>3, <1>4, <1>5, <1>6

\* The tcpip thread takes the first job: the others stay, and a tcp_write that was
\* there once is there no more.
LEMMA TakeFacts ==
  ASSUME mbox \in Seq(Jobs), NEW name, NEW k, Job(name, k), mbox' = Tail(mbox)
  PROVE  /\ mbox' \in Seq(Jobs)
         /\ Queued(name, k)
         /\ \A n, j : Queued(n, j)' => Queued(n, j)
         /\ \A n, j : Queued(n, j) /\ (n # name \/ j # k) => Queued(n, j)'
         /\ \A j : Once(j) => Once(j)'
         /\ Once(k) /\ name = "write" => ~Queued("write", k)'
<1>1. /\ mbox # <<>> /\ Head(mbox) = [job |-> name, conn |-> k]
      /\ Len(mbox) \in Nat /\ DOMAIN mbox = 1..Len(mbox)
  BY DEF Job
<1>2. /\ mbox' \in Seq(Jobs) /\ Len(mbox') = Len(mbox) - 1 /\ Len(mbox) >= 1
      /\ DOMAIN mbox' = 1..(Len(mbox) - 1)
      /\ mbox[1] = [job |-> name, conn |-> k]
      /\ \A i \in 1..(Len(mbox) - 1) : i + 1 \in 1..Len(mbox) /\ mbox'[i] = mbox[i + 1]
  BY <1>1
<1>3. Queued(name, k)
  BY <1>1, <1>2 DEF Queued
<1>4. ASSUME NEW n, NEW j, Queued(n, j)' PROVE Queued(n, j)
  BY <1>1, <1>2, <1>4 DEF Queued
<1>5. ASSUME NEW n, NEW j, Queued(n, j), n # name \/ j # k PROVE Queued(n, j)'
  <2>1. PICK i \in 1..Len(mbox) : mbox[i] = [job |-> n, conn |-> j]
    BY <1>1, <1>5 DEF Queued
  <2>2. i # 1
    <3>1. SUFFICES ASSUME i = 1 PROVE FALSE
      OBVIOUS
    <3>2. [job |-> n, conn |-> j] = [job |-> name, conn |-> k]
      BY <1>2, <2>1, <3>1
    <3>3. QED
      BY <1>5, <3>2
  <2>3. i - 1 \in 1..(Len(mbox) - 1) /\ mbox'[i - 1] = mbox[i]
    BY <1>1, <1>2, <2>2
  <2>4. QED
    BY <1>2, <2>1, <2>3 DEF Queued
<1>6. ASSUME NEW j, Once(j) PROVE Once(j)'
  BY <1>1, <1>2, <1>6 DEF Once
<1>7. ASSUME Once(k), name = "write", Queued("write", k)' PROVE FALSE
  <2>1. PICK i \in 1..(Len(mbox) - 1) : mbox'[i] = [job |-> "write", conn |-> k]
    BY <1>2, <1>7 DEF Queued
  <2>2. mbox[i + 1] = mbox[1] /\ i + 1 \in DOMAIN mbox /\ 1 \in DOMAIN mbox /\ i + 1 # 1
    BY <1>1, <1>2, <1>7, <2>1
  <2>3. QED
    BY <1>2, <1>7, <2>2 DEF Once
<1>8. QED
  BY <1>2, <1>3, <1>4, <1>5, <1>6, <1>7

-----------------------------------------------------------------------------
(***************************************************************************)
(* A step that leaves a connection alone preserves what is said of it.     *)
(***************************************************************************)
\* The struct of j is the same.
SameStruct(j) ==
  /\ Live(j) => mem'[block[j]] = mem[block[j]]
  /\ \A b \in Blocks : mem'[b].own = j => mem[b].own = j

\* The jobs of j are the same, but for those that come for it or go.
SameJobs(j) ==
  /\ Queued("close", j) => Queued("close", j)'
  /\ Queued("write", j)' => Queued("write", j)
  /\ Once(j) => Once(j)'

\* The tcpip thread is not in a callback of j, or stays where it is in it.
SameCall(j) == tcpip.conn = j \/ tcpip'.conn = j => tcpip' = tcpip

\* Nothing of connection j changes; the struct of another may be allocated or freed
\* and jobs of others may come and go.
Same(j) ==
  /\ pcb'[j] = pcb[j] /\ arg'[j] = arg[j] /\ up'[j] = up[j]
  /\ thread'[j] = thread[j] /\ block'[j] = block[j] /\ buf'[j] = buf[j]
  /\ sock'[j] = sock[j] /\ down'[j].read = down[j].read
  /\ hostGot'[j] = hostGot[j] /\ espGot'[j] = espGot[j] /\ lost'[j] = lost[j]
  /\ SameStruct(j) /\ SameJobs(j) /\ SameCall(j)

\* Then what is said of j is kept.
LEMMA SameInv ==
  ASSUME NEW j \in Conns, ConnInv(j), Same(j)
  PROVE  ConnInv(j)'
<1>1. Live(j)' <=> Live(j)
  BY DEF Same, Live
<1>2. Owns(j)'
  BY <1>1 DEF ConnInv, Owns, Same, SameStruct
<1>3. Called(j)'
  BY DEF ConnInv, Called, Same, SameCall
<1>4. Flags(j)'
  BY <1>1 DEF ConnInv, Flags, Same, SameStruct
<1>5. Closes(j)'
  BY DEF ConnInv, Closes, Same, SameJobs
<1>6. Waits(j)'
  BY DEF ConnInv, Waits, Same, SameJobs
<1>7. Uplink(j)'
  BY <1>1 DEF ConnInv, Uplink, Chain, Same, SameStruct, SameCall
<1>8. Downlink(j)'
  BY <1>1 DEF ConnInv, Downlink, InOrder, Same, SameStruct, Live
<1>9. QED
  BY <1>2, <1>3, <1>4, <1>5, <1>6, <1>7, <1>8 DEF ConnInv

\* A step that leaves the mailbox alone keeps every connection's jobs.
LEMMA JobsKept == ASSUME mbox' = mbox PROVE \A j : SameJobs(j)
BY DEF SameJobs, Queued, Once

\* The same for the structs,
LEMMA StructsKept == ASSUME mem' = mem PROVE \A j : SameStruct(j)
BY DEF SameStruct

\* and for the callback that runs.
LEMMA CallKept == ASSUME tcpip' = tcpip PROVE \A j : SameCall(j)
BY DEF SameCall

\* A callback of k begins, goes on or ends.
LEMMA CallOf ==
  ASSUME IInv, NEW k \in Conns,
         tcpip.at = "idle" \/ tcpip.conn = k, tcpip'.conn \in {k, None}
  PROVE  \A j \in Conns : j # k => SameCall(j)
BY NoneAssumption DEF SameCall, IInv, ConnInv, Called

\* A flag of the struct of k changes, and no other connection has that struct.
LEMMA StructOf ==
  ASSUME NEW k \in Conns, NEW p, NEW f, NEW a,
         Turns(block[k], p, f, a), block[k] \in Blocks,
         \A j \in Conns : j # k /\ Live(j) => block[j] \in Blocks /\ block[j] # block[k]
  PROVE  \A j \in Conns : j # k => SameStruct(j)
BY DEF SameStruct, Turns

\* A step of connection k.
LEMMA StepInv ==
  ASSUME IInv, NEW k \in Conns, TypeOK', ConnInv(k)', \A j \in Conns : j # k => Same(j)
  PROVE  IInv'
BY SameInv DEF IInv

\* A thread that has not freed its struct has one, which no other thread uses.
LEMMA LiveFacts ==
  ASSUME IInv, NEW k \in Conns, Live(k)
  PROVE  /\ block[k] \in Blocks /\ mem[block[k]] \in Conn /\ mem[block[k]].own = k
         /\ \A j \in Conns : j # k /\ Live(j) => block[j] \in Blocks /\ block[j] # block[k]
BY DEF IInv, TypeOK, ConnInv, Owns

\* The struct a callback was given is valid as long as the thread lives.
LEMMA CallFacts ==
  ASSUME IInv, NEW k \in Conns, tcpip.conn = k, tcpip.at \in Callbacks
  PROVE  arg[k] \in Blocks /\ arg[k] = block[k] /\ (Valid(k) => Live(k))
BY DEF IInv, TypeOK, ConnInv, Owns, Called, Valid

\* What is said of the struct of k when only its flags may have changed.
LEMMA OwnsKept ==
  ASSUME NEW k \in Conns, Owns(k), Live(k)' <=> Live(k),
         block'[k] = block[k], arg'[k] = arg[k], thread[k] # "none" => thread'[k] # "none",
         \A x \in Blocks : mem'[x].own = mem[x].own
  PROVE  Owns(k)'
BY DEF Owns

-----------------------------------------------------------------------------
(***************************************************************************)
(* Every step preserves the invariant.                                     *)
(***************************************************************************)
\* Opening the listening socket.
LEMMA ListeningInv ==
  ASSUME IInv, Listening
  PROVE  IInv'
<1>1. TypeOK /\ \A j \in Conns : ConnInv(j)
  BY DEF IInv
<1>2. None \notin Conns /\ None \notin Blocks
  BY NoneAssumption
<1>3. CASE netdev_fwd_on_link_up
  <2>1. /\ Post("listen", None)
        /\ UNCHANGED <<s_enabled, s_listening, tcpip, pcb, arg, up, mem, thread, block,
                       buf, sock, shut, down, eof, hostGot, espGot, lost, fate>>
    BY <1>3 DEF netdev_fwd_on_link_up, listen, lwip, worker, host, given
  <2>2. /\ mbox' \in Seq(Jobs)
        /\ Queued("listen", None)'
        /\ \A x, j : Queued(x, j) => Queued(x, j)'
        /\ \A x, j : Queued(x, j)' => Queued(x, j) \/ (x = "listen" /\ j = None)
        /\ \A j : Once(j) => Once(j)'
    BY <1>1, <2>1, PostFacts DEF TypeOK
  <2>3. TypeOK'
    BY <1>1, <2>1, <2>2 DEF TypeOK, Places, Tcpip, Callbacks
  <2>4. ASSUME NEW j \in Conns PROVE Same(j)
    BY <1>1, <1>2, <2>1, <2>2, CallKept, StructsKept DEF Same, SameJobs
  <2>5. QED
    BY <2>3, <2>4, SameInv DEF IInv
<1>4. CASE netdev_start_listen
  <2>1. /\ Job("listen", None)
        /\ mbox' = Tail(mbox)
        /\ UNCHANGED <<s_enabled, tcpip, pcb, arg, up, mem, thread, block, buf, sock,
                       shut, down, eof, hostGot, espGot, lost, fate>>
    BY <1>4 DEF netdev_start_listen, listen, lwip, worker, host, given
  <2>2. /\ mbox' \in Seq(Jobs)
        /\ Queued("listen", None)
        /\ \A x, j : Queued(x, j)' => Queued(x, j)
        /\ \A x, j : Queued(x, j) /\ (x # "listen" \/ j # None) => Queued(x, j)'
        /\ \A j : Once(j) => Once(j)'
    BY <1>1, <2>1, TakeFacts DEF TypeOK
  <2>3. s_listening' \in BOOLEAN
    BY <1>1, <1>4 DEF netdev_start_listen, TypeOK
  <2>4. TypeOK'
    BY <1>1, <2>1, <2>2, <2>3 DEF TypeOK, Places, Tcpip, Callbacks
  <2>5. ASSUME NEW j \in Conns PROVE Same(j)
    BY <1>1, <1>2, <2>1, <2>2, <2>3, CallKept, StructsKept DEF Same, SameJobs
  <2>6. QED
    BY <2>4, <2>5, SameInv DEF IInv
<1>5. ASSUME NEW port \in {0, 1}, netdev_fwd_configure(port) PROVE IInv'
  <2>1. /\ UNCHANGED <<s_listening, mbox, tcpip, pcb, arg, up, mem, thread, block, buf,
                       sock, shut, down, eof, hostGot, espGot, lost, fate>>
    BY <1>5 DEF netdev_fwd_configure, listen, lwip, worker, host, given
  <2>2. s_enabled' \in BOOLEAN
    BY <1>1, <1>5 DEF netdev_fwd_configure, TypeOK
  <2>3. TypeOK'
    BY <1>1, <2>1, <2>2 DEF TypeOK, Places, Tcpip, Callbacks
  <2>4. ASSUME NEW j \in Conns PROVE Same(j)
    BY <1>1, <1>2, <2>1, <2>2, CallKept, StructsKept, JobsKept DEF Same
  <2>5. QED
    BY <2>3, <2>4, SameInv DEF IInv
<1>6. QED
  BY <1>3, <1>4, <1>5 DEF Listening

\* The callbacks, and the jobs of the mailbox.
LEMMA TcpipInv ==
  ASSUME IInv, NEW k \in Conns, TcpipStep(k)
  PROVE  IInv'
<1>1. TypeOK /\ ConnInv(k)
  BY DEF IInv
<1>2. None \notin Conns /\ None \notin Blocks
  BY NoneAssumption
<1>3. CASE AcceptAborts(k)
  <2>1. /\ tcpip.at = "connect" /\ tcpip.conn = k
        /\ pcb' = [pcb EXCEPT ![k] = "freed"]
        /\ tcpip' = [at |-> "idle", conn |-> None, left |-> 0]
        /\ UNCHANGED <<s_enabled, s_listening, mbox, arg, up, mem, thread, block, buf,
                       sock, shut, down, eof, hostGot, espGot, lost, fate>>
    BY <1>3 DEF AcceptAborts, At, Idle, listen, lwip, worker, host, given
  <2>2. TypeOK'
    BY <1>1, <2>1 DEF TypeOK, Places, Tcpip, Callbacks
  <2>3. ASSUME NEW j \in Conns, j # k PROVE Same(j)
    BY <1>1, <1>2, <2>1, <2>3, CallOf, StructsKept, JobsKept DEF TypeOK, Tcpip, Same
  <2>4. ConnInv(k)'
    BY <1>1, <1>2, <2>1
       DEF TypeOK, Tcpip, ConnInv, Owns, Called, Callbacks, Flags, Closes, Waits,
           Uplink, Downlink, Chain, InOrder, Live, Queued, Once
  <2>5. QED
    BY <2>2, <2>3, <2>4, StepInv
<1>4. ASSUME NEW b \in Blocks, AcceptSplices(k, b) PROVE IInv'
  <2>1. /\ tcpip.at = "connect" /\ tcpip.conn = k /\ mem[b].own = None
        /\ mem' = [mem EXCEPT ![b] = [own |-> k, pcb |-> TRUE, fd |-> TRUE, alive |-> TRUE]]
        /\ arg' = [arg EXCEPT ![k] = b]
        /\ sock' = [sock EXCEPT ![k] = "open"]
        /\ block' = [block EXCEPT ![k] = b]
        /\ thread' = [thread EXCEPT ![k] = "check"]
        /\ tcpip' = [at |-> "detach", conn |-> k, left |-> 0]
        /\ UNCHANGED <<s_enabled, s_listening, mbox, pcb, up, buf, shut, down, eof,
                       hostGot, espGot, lost, fate>>
    BY <1>4 DEF AcceptSplices, At, Go, listen, given
  <2>2. /\ thread[k] = "none" /\ pcb[k] # "none"
        /\ \A j \in Conns : Live(j) => block[j] \in Blocks /\ block[j] # b
    BY <1>1, <1>2, <2>1 DEF IInv, ConnInv, Called, Owns
  <2>3. /\ mem' \in [Blocks -> Conn] /\ mem'[b].own = k
        /\ mem'[b].pcb /\ mem'[b].fd /\ mem'[b].alive
        /\ \A x \in Blocks : x # b => mem'[x] = mem[x]
    BY <1>1, <2>1 DEF TypeOK, Conn
  <2>4. thread'[k] = "check" /\ block'[k] = b /\ arg'[k] = b /\ sock'[k] = "open"
    BY <1>1, <2>1 DEF TypeOK
  <2>5. TypeOK'
    BY <1>1, <2>1, <2>2, <2>3, <2>4 DEF TypeOK, Places, Tcpip, Callbacks, Conn
  <2>6. ASSUME NEW j \in Conns, j # k PROVE Same(j)
    BY <1>1, <1>2, <2>1, <2>2, <2>3, <2>4, <2>6, CallOf, JobsKept
       DEF TypeOK, Tcpip, Same, SameStruct
  <2>7. ConnInv(k)'
    BY <1>1, <1>2, <2>1, <2>2, <2>3, <2>4
       DEF TypeOK, Tcpip, ConnInv, Owns, Called, Callbacks, Flags, Closes, Waits,
           Uplink, Downlink, Chain, InOrder, Live, Queued, Once
  <2>8. QED
    BY <2>5, <2>6, <2>7, StepInv
<1>5. CASE ThreadFails(k) \/ CallocFails(k)
  <2>1. /\ tcpip.at = "connect" /\ tcpip.conn = k
        /\ pcb' = [pcb EXCEPT ![k] = "freed"]
        /\ fate' = "undefined"
        /\ UNCHANGED <<s_enabled, s_listening, mbox, tcpip, arg, up, mem, thread, block,
                       buf, sock, shut, down, eof, hostGot, espGot, lost>>
    BY <1>5 DEF ThreadFails, CallocFails, At, listen, lwip, worker, host, given
  <2>2. TypeOK'
    BY <1>1, <2>1 DEF TypeOK, Places, Tcpip, Callbacks
  <2>3. ASSUME NEW j \in Conns, j # k PROVE Same(j)
    BY <1>1, <1>2, <2>1, <2>3, CallKept, StructsKept, JobsKept DEF TypeOK, Tcpip, Same
  <2>4. ConnInv(k)'
    BY <1>1, <1>2, <2>1
       DEF TypeOK, Tcpip, ConnInv, Owns, Called, Callbacks, Flags, Closes, Waits,
           Uplink, Downlink, Chain, InOrder, Live, Queued, Once
  <2>5. QED
    BY <2>2, <2>3, <2>4, StepInv
<1>6. CASE Detach(k)
  <2>1. /\ tcpip.at = "detach" /\ tcpip.conn = k
        /\ tcpip' = [at |-> "idle", conn |-> None, left |-> 0]
        /\ UNCHANGED <<s_enabled, s_listening, mbox, pcb, arg, up, mem, thread, block,
                       buf, sock, shut, down, eof, hostGot, espGot, lost, fate>>
    BY <1>6 DEF Detach, At, Idle, listen, lwip, worker, host, given
  <2>2. TypeOK'
    BY <1>1, <2>1 DEF TypeOK, Places, Tcpip, Callbacks
  <2>3. ASSUME NEW j \in Conns, j # k PROVE Same(j)
    BY <1>1, <1>2, <2>1, <2>3, CallOf, StructsKept, JobsKept DEF TypeOK, Tcpip, Same
  <2>4. ConnInv(k)'
    BY <1>1, <1>2, <2>1
       DEF TypeOK, Tcpip, ConnInv, Owns, Called, Callbacks, Flags, Closes, Waits,
           Uplink, Downlink, Chain, InOrder, Live, Queued, Once
  <2>5. QED
    BY <2>2, <2>3, <2>4, StepInv
<1>7. CASE WriteOk(k)
  <2>1. /\ tcpip.at = "write" /\ tcpip.conn = k
        /\ Valid(k)
        /\ tcpip.left > 0
        /\ hostGot' = [hostGot EXCEPT ![k] = Append(hostGot[k], up[k].sent - tcpip.left + 1)]
        /\ tcpip' = [at |-> "recv", conn |-> k, left |-> tcpip.left - 1]
        /\ UNCHANGED <<s_enabled, s_listening, mbox, pcb, arg, up, mem, thread, block,
                       buf, sock, shut, down, eof, espGot, lost, fate>>
    BY <1>1, <1>7
       DEF WriteOk, Writing, Written, At, listen, lwip, worker, host, given, ConnInv, Uplink
  <2>2. /\ Live(k) /\ arg[k] = block[k] /\ block[k] \in Blocks
        /\ \A j \in Conns : j # k /\ Live(j) => block[j] \in Blocks /\ block[j] # block[k]
    BY <2>1, CallFacts, LiveFacts DEF Callbacks
  <2>3. TypeOK'
    <3>1. tcpip.left - 1 \in Nat
      BY <1>1, <2>1 DEF TypeOK, Tcpip
    <3>2. tcpip' \in Tcpip
      BY <2>1, <3>1 DEF Tcpip, Callbacks
    <3>3. up[k].sent - tcpip.left + 1 = Len(hostGot[k]) + 1 /\ hostGot[k] \in Seq(Nat)
      BY <1>1, <2>1, <2>2 DEF TypeOK, Tcpip, ConnInv, Uplink, Chain
    <3>4. Append(hostGot[k], up[k].sent - tcpip.left + 1) \in Seq(Nat)
      BY <3>3
    <3>5. hostGot' \in [Conns -> Seq(Nat)]
      BY <1>1, <2>1, <3>4 DEF TypeOK
    <3>6. QED
      BY <1>1, <2>1, <3>2, <3>5 DEF TypeOK
  <2>4. ASSUME NEW j \in Conns, j # k PROVE Same(j)
    BY <1>1, <1>2, <2>1, <2>2, <2>4, CallOf, StructsKept, JobsKept
       DEF TypeOK, Tcpip, Same
  <2>5. ConnInv(k)'
    <3>1. Owns(k)' /\ Called(k)' /\ Closes(k)' /\ Waits(k)'
      BY <1>1, <1>2, <2>1, <2>2
         DEF TypeOK, Tcpip, ConnInv, Owns, Called, Callbacks, Closes, Waits, Live, Queued, Once
    <3>2. Flags(k)'
      BY <1>1, <1>2, <2>1, <2>2
         DEF TypeOK, Tcpip, ConnInv, Owns, Called, Callbacks, Flags, Live
    <3>3. Downlink(k)'
      BY <1>1, <1>2, <2>1, <2>2
         DEF TypeOK, ConnInv, Owns, Flags, Downlink, InOrder, Live
    <3>4. Uplink(k)'
      <4>1. /\ Len(hostGot[k]) + tcpip.left = up[k].sent /\ Len(hostGot[k]) \in Nat
            /\ hostGot[k] \in Seq(Nat) /\ tcpip.left \in Nat
            /\ \A i \in 1..Len(hostGot[k]) : hostGot[k][i] = i
        BY <1>1, <2>1, <2>2 DEF TypeOK, Tcpip, ConnInv, Uplink, Chain
      <4>2. hostGot'[k] = Append(hostGot[k], Len(hostGot[k]) + 1)
        BY <1>1, <2>1, <4>1 DEF TypeOK
      <4>3. Len(hostGot'[k]) = Len(hostGot[k]) + 1
        BY <4>1, <4>2
      <4>4. \A i \in 1..Len(hostGot'[k]) : hostGot'[k][i] = i
        BY <4>1, <4>2, <4>3
      <4>5. Chain(k)' = tcpip.left - 1 /\ up'[k].sent = up[k].sent /\ tcpip'.at = "recv"
        BY <2>1 DEF Chain
      <4>6. thread'[k] # "none"
        BY <2>1, <2>2 DEF Live
      <4>7. Len(hostGot'[k]) + Chain(k)' = up'[k].sent
        <5>1. ASSUME NEW l \in Nat, NEW m \in Nat PROVE l + m = (l + 1) + (m - 1)
          OBVIOUS
        <5>2. Len(hostGot[k]) + tcpip.left = (Len(hostGot[k]) + 1) + (tcpip.left - 1)
          BY <4>1, <5>1
        <5>3. QED
          BY <4>1, <4>3, <4>5, <5>2, Zenon
      <4>8. tcpip'.at # "write"
        BY <4>5
      <4>9. QED
        BY <4>4, <4>6, <4>7, <4>8 DEF Uplink
    <3>5. QED
      BY <3>1, <3>2, <3>3, <3>4 DEF ConnInv
  <2>6. QED
    BY <2>3, <2>4, <2>5, StepInv
<1>8. CASE WriteFails(k)
  <2>1. /\ tcpip.at = "write" /\ tcpip.conn = k
        /\ Valid(k)
        /\ tcpip.left > 0
        /\ tcpip' = [at |-> "recv", conn |-> k, left |-> tcpip.left - 1]
        /\ mem' = Put(arg[k], "alive", FALSE)
        /\ UNCHANGED <<s_enabled, s_listening, mbox, pcb, arg, up, thread, block, buf,
                       sock, shut, down, eof, hostGot, espGot, lost, fate>>
    BY <1>1, <1>8
       DEF WriteFails, Writing, Written, At, listen, lwip, worker, host, given, ConnInv, Uplink
  <2>2. /\ Live(k) /\ arg[k] = block[k] /\ block[k] \in Blocks
        /\ \A j \in Conns : j # k /\ Live(j) => block[j] \in Blocks /\ block[j] # block[k]
    BY <2>1, CallFacts, LiveFacts DEF Callbacks
  <2>3. Turns(block[k], mem[block[k]].pcb, mem[block[k]].fd, FALSE)
    BY <1>1, <2>1, <2>2, PutAlive DEF TypeOK
  <2>4. TypeOK'
    <3>1. tcpip.left - 1 \in Nat
      BY <1>1, <2>1 DEF TypeOK, Tcpip
    <3>2. tcpip' \in Tcpip
      BY <2>1, <3>1 DEF Tcpip, Callbacks
    <3>3. QED
      BY <1>1, <2>1, <2>3, <3>2 DEF TypeOK, Turns
  <2>5. ASSUME NEW j \in Conns, j # k PROVE Same(j)
    BY <1>1, <1>2, <2>1, <2>2, <2>3, <2>5, CallOf, StructOf, JobsKept
       DEF TypeOK, Tcpip, Same
  <2>6. ConnInv(k)'
    <3>1. Owns(k)'
      BY <1>1, <2>1, <2>2, <2>3, OwnsKept DEF ConnInv, Turns, Live
    <3>2. Called(k)' /\ Closes(k)' /\ Waits(k)'
      BY <1>1, <1>2, <2>1, <2>2, <2>3
         DEF TypeOK, Tcpip, ConnInv, Called, Callbacks, Closes, Live, Waits, Turns,
             Queued, Once
    <3>3. Flags(k)'
      BY <1>1, <1>2, <2>1, <2>2, <2>3
         DEF TypeOK, Tcpip, ConnInv, Called, Callbacks, Flags, Live, Turns
    <3>4. Uplink(k)'
      BY <1>1, <1>2, <2>1, <2>2, <2>3
         DEF TypeOK, Tcpip, ConnInv, Called, Callbacks, Live, Uplink, Chain, Turns
    <3>5. Downlink(k)'
      BY <1>1, <1>2, <2>1, <2>2, <2>3
         DEF TypeOK, Tcpip, ConnInv, Called, Callbacks, Live, Downlink, InOrder, Turns
    <3>6. QED
      BY <3>1, <3>2, <3>3, <3>4, <3>5 DEF ConnInv
  <2>7. QED
    BY <2>4, <2>5, <2>6, StepInv
<1>9. CASE RecvDone(k)
  <2>1. /\ tcpip.at = "recv" /\ tcpip.conn = k
        /\ tcpip.left = 0 \/ ~mem[arg[k]].fd \/ ~mem[arg[k]].alive
        /\ tcpip' = [at |-> "idle", conn |-> None, left |-> 0]
        /\ UNCHANGED <<s_enabled, s_listening, mbox, pcb, arg, up, mem, thread,
                       block, buf, sock, shut, down, eof, hostGot, espGot, lost,
                       fate>>
    <3>1. tcpip.left \in Nat
      BY <1>1 DEF TypeOK, Tcpip
    <3>2. QED
      BY <1>9, <3>1 DEF RecvDone, MoreToPass, At, Idle, listen, worker, host, given
  <2>2. arg[k] = block[k] /\ block[k] \in Blocks
    BY <2>1, CallFacts DEF Callbacks
  <2>3. TypeOK'
    BY <1>1, <2>1, <2>2 DEF TypeOK, Places, Tcpip, Callbacks
  <2>4. ASSUME NEW j \in Conns, j # k PROVE Same(j)
    BY <1>1, <1>2, <2>1, <2>2, <2>4, CallOf, StructsKept, JobsKept
       DEF TypeOK, Tcpip, Same
  <2>5. ConnInv(k)'
    BY <1>1, <1>2, <2>1, <2>2
       DEF TypeOK, Tcpip, ConnInv, Owns, Called, Callbacks, Flags, Closes, Waits,
           Uplink, Downlink, Chain, InOrder, Live, Queued, Once
  <2>6. QED
    BY <2>3, <2>4, <2>5, StepInv
<1>10. CASE FinClearsAlive(k)
  <2>1. /\ tcpip.at = "fin" /\ tcpip.conn = k
        /\ Valid(k)
        /\ tcpip' = [at |-> "shut_wr", conn |-> k, left |-> 0]
        /\ mem' = Put(arg[k], "alive", FALSE)
        /\ UNCHANGED <<s_enabled, s_listening, mbox, pcb, arg, up, thread, block, buf,
                       sock, shut, down, eof, hostGot, espGot, lost, fate>>
    BY <1>10 DEF FinClearsAlive, At, Go, listen, lwip, worker, host, given
  <2>2. /\ Live(k) /\ arg[k] = block[k] /\ block[k] \in Blocks
        /\ \A j \in Conns : j # k /\ Live(j) => block[j] \in Blocks /\ block[j] # block[k]
    BY <2>1, CallFacts, LiveFacts DEF Callbacks
  <2>3. Turns(block[k], mem[block[k]].pcb, mem[block[k]].fd, FALSE)
    BY <1>1, <2>1, <2>2, PutAlive DEF TypeOK
  <2>4. TypeOK'
    BY <1>1, <2>1, <2>2, <2>3 DEF TypeOK, Places, Tcpip, Callbacks, Turns
  <2>5. ASSUME NEW j \in Conns, j # k PROVE Same(j)
    BY <1>1, <1>2, <2>1, <2>2, <2>3, <2>5, CallOf, StructOf, JobsKept
       DEF TypeOK, Tcpip, Same
  <2>6. ConnInv(k)'
    <3>1. Owns(k)'
      BY <1>1, <2>1, <2>2, <2>3, OwnsKept DEF ConnInv, Turns, Live
    <3>2. Called(k)' /\ Closes(k)' /\ Waits(k)'
      BY <1>1, <1>2, <2>1, <2>2, <2>3
         DEF TypeOK, Tcpip, ConnInv, Called, Callbacks, Closes, Live, Waits, Turns,
             Queued, Once
    <3>3. Flags(k)'
      BY <1>1, <1>2, <2>1, <2>2, <2>3
         DEF TypeOK, Tcpip, ConnInv, Called, Callbacks, Flags, Live, Turns
    <3>4. Uplink(k)'
      BY <1>1, <1>2, <2>1, <2>2, <2>3
         DEF TypeOK, Tcpip, ConnInv, Called, Callbacks, Live, Uplink, Chain, Turns
    <3>5. Downlink(k)'
      BY <1>1, <1>2, <2>1, <2>2, <2>3
         DEF TypeOK, Tcpip, ConnInv, Called, Callbacks, Live, Downlink, InOrder, Turns
    <3>6. QED
      BY <3>1, <3>2, <3>3, <3>4, <3>5 DEF ConnInv
  <2>7. QED
    BY <2>4, <2>5, <2>6, StepInv
<1>11. CASE netdev_err(k)
  <2>1. /\ tcpip.at = "err" /\ tcpip.conn = k
        /\ Valid(k)
        /\ tcpip' = [at |-> "shut_rdwr", conn |-> k, left |-> 0]
        /\ mem' = [mem EXCEPT ![arg[k]].pcb = FALSE, ![arg[k]].alive = FALSE]
        /\ UNCHANGED <<s_enabled, s_listening, mbox, pcb, arg, up, thread, block, buf,
                       sock, shut, down, eof, hostGot, espGot, lost, fate>>
    BY <1>11 DEF netdev_err, At, Go, listen, lwip, worker, host, given
  <2>2. /\ Live(k) /\ arg[k] = block[k] /\ block[k] \in Blocks
        /\ \A j \in Conns : j # k /\ Live(j) => block[j] \in Blocks /\ block[j] # block[k]
    BY <2>1, CallFacts, LiveFacts DEF Callbacks
  <2>3. Turns(block[k], FALSE, mem[block[k]].fd, FALSE)
    BY <1>1, <2>1, <2>2, PutErr DEF TypeOK
  <2>4. TypeOK'
    BY <1>1, <2>1, <2>2, <2>3 DEF TypeOK, Places, Tcpip, Callbacks, Turns
  <2>5. ASSUME NEW j \in Conns, j # k PROVE Same(j)
    BY <1>1, <1>2, <2>1, <2>2, <2>3, <2>5, CallOf, StructOf, JobsKept
       DEF TypeOK, Tcpip, Same
  <2>6. ConnInv(k)'
    <3>1. Owns(k)'
      BY <1>1, <2>1, <2>2, <2>3, OwnsKept DEF ConnInv, Turns, Live
    <3>2. Called(k)' /\ Closes(k)' /\ Waits(k)'
      BY <1>1, <1>2, <2>1, <2>2, <2>3
         DEF TypeOK, Tcpip, ConnInv, Called, Callbacks, Closes, Live, Waits, Turns,
             Queued, Once
    <3>3. Flags(k)'
      BY <1>1, <1>2, <2>1, <2>2, <2>3
         DEF TypeOK, Tcpip, ConnInv, Called, Callbacks, Flags, Live, Turns
    <3>4. Uplink(k)'
      BY <1>1, <1>2, <2>1, <2>2, <2>3
         DEF TypeOK, Tcpip, ConnInv, Called, Callbacks, Live, Uplink, Chain, Turns
    <3>5. Downlink(k)'
      BY <1>1, <1>2, <2>1, <2>2, <2>3
         DEF TypeOK, Tcpip, ConnInv, Called, Callbacks, Live, Downlink, InOrder, Turns
    <3>6. QED
      BY <3>1, <3>2, <3>3, <3>4, <3>5 DEF ConnInv
  <2>7. QED
    BY <2>4, <2>5, <2>6, StepInv
<1>12. CASE Shutdown(k, "shut_wr", "wr")
  <2>1. /\ tcpip.at = "shut_wr" /\ tcpip.conn = k
        /\ shut' = shut \/ shut' = [shut EXCEPT ![k] = "wr"]
        /\ tcpip' = [at |-> "idle", conn |-> None, left |-> 0]
        /\ UNCHANGED <<s_enabled, s_listening, mbox, pcb, arg, up, mem, thread, block,
                       buf, sock, down, eof, hostGot, espGot, lost, fate>>
    BY <1>12 DEF Shutdown, At, Idle, listen, lwip, worker, host, given
  <2>2. TypeOK'
    <3>1. shut' \in [Conns -> {"no", "wr", "rdwr"}]
      BY <1>1, <2>1 DEF TypeOK
    <3>2. tcpip' \in Tcpip
      BY <2>1 DEF Tcpip
    <3>3. QED
      BY <1>1, <2>1, <3>1, <3>2 DEF TypeOK
  <2>3. ASSUME NEW j \in Conns, j # k PROVE Same(j)
    BY <1>1, <1>2, <2>1, <2>3, CallOf, StructsKept, JobsKept DEF TypeOK, Tcpip, Same
  <2>4. ConnInv(k)'
    BY <1>1, <1>2, <2>1
       DEF TypeOK, Tcpip, ConnInv, Owns, Called, Callbacks, Flags, Closes, Waits,
           Uplink, Downlink, Chain, InOrder, Live, Queued, Once
  <2>5. QED
    BY <2>2, <2>3, <2>4, StepInv
<1>13. CASE Shutdown(k, "shut_rdwr", "rdwr")
  <2>1. /\ tcpip.at = "shut_rdwr" /\ tcpip.conn = k
        /\ shut' = shut \/ shut' = [shut EXCEPT ![k] = "rdwr"]
        /\ tcpip' = [at |-> "idle", conn |-> None, left |-> 0]
        /\ UNCHANGED <<s_enabled, s_listening, mbox, pcb, arg, up, mem, thread, block,
                       buf, sock, down, eof, hostGot, espGot, lost, fate>>
    BY <1>13 DEF Shutdown, At, Idle, listen, lwip, worker, host, given
  <2>2. TypeOK'
    <3>1. shut' \in [Conns -> {"no", "wr", "rdwr"}]
      BY <1>1, <2>1 DEF TypeOK
    <3>2. tcpip' \in Tcpip
      BY <2>1 DEF Tcpip
    <3>3. QED
      BY <1>1, <2>1, <3>1, <3>2 DEF TypeOK
  <2>3. ASSUME NEW j \in Conns, j # k PROVE Same(j)
    BY <1>1, <1>2, <2>1, <2>3, CallOf, StructsKept, JobsKept DEF TypeOK, Tcpip, Same
  <2>4. ConnInv(k)'
    BY <1>1, <1>2, <2>1
       DEF TypeOK, Tcpip, ConnInv, Owns, Called, Callbacks, Flags, Closes, Waits,
           Uplink, Downlink, Chain, InOrder, Live, Queued, Once
  <2>5. QED
    BY <2>2, <2>3, <2>4, StepInv
<1>14. ASSUME NEW e \in {"ok", "mem", "err"}, do_tcp_write(k, e) PROVE IInv'
  <2>1. /\ Job("write", k) /\ mbox' = Tail(mbox)
        /\ espGot' = IF e = "ok" THEN [espGot EXCEPT ![k] = espGot[k] \o buf[k]] ELSE espGot
        /\ thread' = [thread EXCEPT ![k] = e]
        /\ UNCHANGED <<s_enabled, s_listening, tcpip, pcb, arg, up, mem, block, buf,
                       sock, shut, down, eof, hostGot, lost, fate>>
    BY <1>14 DEF do_tcp_write, listen, host
  <2>2. /\ espGot[k] \in Seq(Nat) /\ buf[k] \in Seq(Nat)
        /\ Len(espGot[k]) \in Nat /\ Len(buf[k]) \in Nat
    BY <1>1 DEF TypeOK
  <2>3. espGot[k] \o buf[k] \in Seq(Nat)
    BY <2>2
  <2>4. /\ espGot' \in [Conns -> Seq(Nat)] /\ thread' \in [Conns -> Places] /\ thread'[k] = e
        /\ \A j \in Conns : j # k => espGot'[j] = espGot[j] /\ thread'[j] = thread[j]
        /\ espGot'[k] = IF e = "ok" THEN espGot[k] \o buf[k] ELSE espGot[k]
    BY <1>1, <2>1, <2>3 DEF TypeOK, Places
  <2>5. thread[k] = "wait" /\ Live(k) /\ block[k] \in Blocks
    <3>1. Queued("write", k)
      BY <1>1, <2>1, TakeFacts DEF TypeOK
    <3>2. QED
      BY <1>1, <3>1 DEF ConnInv, Waits, Owns, Live
  <2>6. /\ mbox' \in Seq(Jobs)
        /\ Queued("write", k)
        /\ \A x, j : Queued(x, j)' => Queued(x, j)
        /\ \A x, j : Queued(x, j) /\ (x # "write" \/ j # k) => Queued(x, j)'
        /\ \A j : Once(j) => Once(j)'
        /\ Once(k) => ~Queued("write", k)'
    BY <1>1, <2>1, TakeFacts DEF TypeOK
  <2>7. TypeOK'
    BY <1>1, <2>1, <2>2, <2>4, <2>5, <2>6 DEF TypeOK, Places, Tcpip, Callbacks
  <2>8. ASSUME NEW j \in Conns, j # k PROVE Same(j)
    BY <1>1, <1>2, <2>1, <2>2, <2>4, <2>5, <2>6, <2>8, CallKept, StructsKept
       DEF TypeOK, Tcpip, Same, SameJobs
  <2>9. ConnInv(k)'
    <3>1. Owns(k)'
      BY <1>1, <2>1, <2>4, <2>5 DEF ConnInv, Owns, Live
    <3>2. Called(k)'
      BY <1>1, <2>1, <2>4, <2>5 DEF ConnInv, Called
    <3>3. Flags(k)'
      BY <1>1, <2>1, <2>4, <2>5 DEF ConnInv, Flags, Live
    <3>4. Closes(k)'
      BY <1>1, <2>1, <2>4, <2>5 DEF ConnInv, Closes
    <3>5. Waits(k)'
      BY <1>1, <2>6 DEF ConnInv, Waits
    <3>6. Uplink(k)'
      BY <1>1, <2>1, <2>4, <2>5 DEF ConnInv, Uplink, Chain, Live
    <3>7. Downlink(k)'
      <4>1. /\ InOrder(k) /\ down[k].read \in Nat
            /\ \A i \in 1..Len(espGot[k]) : espGot[k][i] = i
        BY <1>1, <2>5 DEF TypeOK, ConnInv, Downlink
      <4>2. CASE e = "ok"
        <5>1. espGot'[k] = espGot[k] \o buf[k]
          BY <2>4, <4>2
        <5>2. /\ Len(espGot'[k]) = Len(espGot[k]) + Len(buf[k])
              /\ \A i \in 1..Len(espGot'[k]) : espGot'[k][i] = i
          BY <2>2, <4>1, <5>1, StreamFacts DEF InOrder
        <5>3. QED
          BY <2>1, <2>4, <4>1, <4>2, <5>2 DEF Downlink, InOrder
      <4>3. CASE e # "ok"
        <5>1. InOrder(k)'
          BY <2>1, <2>4, <4>1, <4>3 DEF InOrder
        <5>2. QED
          BY <2>1, <2>4, <4>1, <4>3, <5>1 DEF Downlink
      <4>4. QED
        BY <4>2, <4>3
    <3>8. QED
      BY <3>1, <3>2, <3>3, <3>4, <3>5, <3>6, <3>7 DEF ConnInv
  <2>10. QED
    BY <2>7, <2>8, <2>9, StepInv
<1>15. CASE close_pcb_cb(k)
  <2>1. /\ Job("close", k)
        /\ tcpip.at = "idle" /\ pcb[k] # "freed"
        /\ mbox' = Tail(mbox)
        /\ arg' = [arg EXCEPT ![k] = None]
        /\ pcb' = [pcb EXCEPT ![k] = "closing"]
        /\ UNCHANGED <<s_enabled, s_listening, tcpip, up, mem, thread, block, buf, sock,
                       shut, down, eof, hostGot, espGot, lost, fate>>
    BY <1>15 DEF close_pcb_cb, Job, Free, listen, lwip, worker, host, given
  <2>2. /\ mbox' \in Seq(Jobs)
        /\ Queued("close", k)
        /\ \A x, j : Queued(x, j)' => Queued(x, j)
        /\ \A x, j : Queued(x, j) /\ (x # "close" \/ j # k) => Queued(x, j)'
        /\ \A j : Once(j) => Once(j)'
    BY <1>1, <2>1, TakeFacts DEF TypeOK
  <2>3. TypeOK'
    BY <1>1, <2>1, <2>2 DEF TypeOK, Places, Tcpip, Callbacks
  <2>4. ASSUME NEW j \in Conns, j # k PROVE Same(j)
    BY <1>1, <1>2, <2>1, <2>2, <2>4, CallKept, StructsKept
       DEF TypeOK, Tcpip, Same, SameJobs
  <2>5. ConnInv(k)'
    <3>1. Owns(k)' /\ Called(k)' /\ Closes(k)' /\ Waits(k)'
      BY <1>1, <1>2, <2>1, <2>2
         DEF TypeOK, Tcpip, ConnInv, Owns, Called, Callbacks, Closes, Waits, Live
    <3>2. Flags(k)'
      BY <1>1, <1>2, <2>1, <2>2
         DEF TypeOK, Tcpip, ConnInv, Owns, Called, Callbacks, Flags, Live
    <3>3. Uplink(k)' /\ Downlink(k)'
      BY <1>1, <1>2, <2>1, <2>2
         DEF TypeOK, Tcpip, ConnInv, Owns, Called, Callbacks, Flags, Uplink, Downlink,
             Chain, InOrder, Live
    <3>4. QED
      BY <3>1, <3>2, <3>3 DEF ConnInv
  <2>6. QED
    BY <2>3, <2>4, <2>5, StepInv
<1>16. CASE Sigpipe(k) \/ StalePcb(k) \/ StaleFd(k) \/ UseAfterFree(k)
  <2>1. /\ UNCHANGED <<s_enabled, s_listening, mbox, tcpip, pcb, arg, up, mem, thread,
                     block, buf, sock, shut, down, eof, hostGot, espGot, lost>>
        /\ fate' \in {"undefined", "killed"}
    BY <1>16 DEF Sigpipe, StalePcb, StaleFd, UseAfterFree, listen, lwip, worker, host, given
  <2>2. TypeOK'
    BY <1>1, <2>1 DEF TypeOK
  <2>3. \A j \in Conns : Same(j)
    BY <2>1, JobsKept, StructsKept, CallKept DEF Same
  <2>4. QED
    BY <2>2, <2>3, SameInv DEF IInv
<1>17. CASE BeginWrite(k)
  <2>1. /\ tcpip.at = "recv" /\ tcpip.conn = k /\ Valid(k)
        /\ tcpip.left > 0 /\ mem[arg[k]].alive
        /\ tcpip' = [at |-> "write", conn |-> k, left |-> tcpip.left]
        /\ UNCHANGED <<s_enabled, s_listening, mbox, pcb, arg, up, mem, thread, block,
                       buf, sock, shut, down, eof, hostGot, espGot, lost, fate>>
    BY <1>17 DEF BeginWrite, MoreToPass, At, listen, lwip, worker, host, given
  <2>2. Live(k) /\ arg[k] = block[k] /\ block[k] \in Blocks
    BY <2>1, CallFacts DEF Callbacks
  <2>3. TypeOK'
    <3>1. tcpip.left \in Nat
      BY <1>1 DEF TypeOK, Tcpip
    <3>2. tcpip' \in Tcpip
      BY <2>1, <3>1 DEF Tcpip, Callbacks
    <3>3. QED
      BY <1>1, <2>1, <3>2 DEF TypeOK
  <2>4. ASSUME NEW j \in Conns, j # k PROVE Same(j)
    BY <1>1, <1>2, <2>1, <2>4, CallOf, StructsKept, JobsKept DEF TypeOK, Tcpip, Same
  <2>5. ConnInv(k)'
    BY <1>1, <1>2, <2>1, <2>2
       DEF TypeOK, Tcpip, ConnInv, Owns, Called, Callbacks, Flags, Closes, Waits,
           Uplink, Downlink, Chain, InOrder, Live, Queued, Once
  <2>6. QED
    BY <2>3, <2>4, <2>5, StepInv
<1>18. QED
  BY <1>3, <1>4, <1>5, <1>6, <1>7, <1>8, <1>9, <1>10, <1>11, <1>12, <1>13, <1>14,
     <1>15, <1>16, <1>17
     DEF TcpipStep

\* What lwIP and the host program do.
LEMMA EventInv ==
  ASSUME IInv, NEW k \in Conns, Event(k)
  PROVE  IInv'
<1>1. TypeOK /\ ConnInv(k)
  BY DEF IInv
<1>2. None \notin Conns /\ None \notin Blocks
  BY NoneAssumption
<1>3. CASE netdev_accept(k)
  <2>1. /\ pcb[k] = "none"
        /\ tcpip.at = "idle"
        /\ pcb' = [pcb EXCEPT ![k] = "open"]
        /\ tcpip' = [at |-> "connect", conn |-> k, left |-> 0]
        /\ UNCHANGED <<s_enabled, s_listening, mbox, arg, up, mem, thread, block, buf,
                       sock, shut, down, eof, hostGot, espGot, lost, fate>>
    BY <1>3 DEF netdev_accept, Go, Free, listen, lwip, worker, host, given
  <2>2. TypeOK'
    BY <1>1, <2>1 DEF TypeOK, Places, Tcpip, Callbacks
  <2>3. ASSUME NEW j \in Conns, j # k PROVE Same(j)
    BY <1>1, <1>2, <2>1, <2>3, CallOf, StructsKept, JobsKept DEF TypeOK, Tcpip, Same
  <2>4. ConnInv(k)'
    BY <1>1, <1>2, <2>1
       DEF TypeOK, Tcpip, ConnInv, Owns, Called, Callbacks, Flags, Closes, Waits,
           Uplink, Downlink, Chain, InOrder, Live, Queued, Once
  <2>5. QED
    BY <2>2, <2>3, <2>4, StepInv
<1>4. CASE netdev_recv(k)
  <2>1. /\ Hooked(k) /\ tcpip.at = "idle"
        /\ UNCHANGED <<s_enabled, s_listening, mbox, pcb, arg, mem, thread, block,
                       buf, sock, shut, down, eof, hostGot, espGot, lost, fate>>
    BY <1>4 DEF netdev_recv, Free, listen, worker, host, given
  <2>2. PICK n \in 1..(MaxUp - up[k].sent) :
               /\ up' = [up EXCEPT ![k].sent = up[k].sent + n]
               /\ tcpip' = [at |-> "recv", conn |-> k, left |-> n]
    BY <1>4 DEF netdev_recv
  <2>3. n \in Nat /\ up[k].sent \in Nat /\ up[k] \in [sent : Nat, fin : BOOLEAN]
    BY <1>1, BoundsAssumption DEF TypeOK
  <2>4. /\ up' \in [Conns -> [sent : Nat, fin : BOOLEAN]] /\ up'[k].sent = up[k].sent + n
        /\ \A j \in Conns : j # k => up'[j] = up[j]
    <3> DEFINE r == [up[k] EXCEPT !.sent = up[k].sent + n]
    <3>1. r \in [sent : Nat, fin : BOOLEAN] /\ r.sent = up[k].sent + n
      BY <2>3
    <3>2. up' = [up EXCEPT ![k] = r]
      BY <2>2
    <3> HIDE DEF r
    <3>3. QED
      BY <1>1, <3>1, <3>2 DEF TypeOK
  <2>5. TypeOK'
    BY <1>1, <2>1, <2>2, <2>3, <2>4 DEF TypeOK, Places, Tcpip, Callbacks
  <2>6. ASSUME NEW j \in Conns, j # k PROVE Same(j)
    BY <1>1, <1>2, <2>1, <2>2, <2>3, <2>4, <2>6, CallOf, StructsKept, JobsKept
       DEF TypeOK, Tcpip, Same
  <2>7. ConnInv(k)'
    <3>1. Uplink(k)'
      <4>1. /\ Chain(k) = 0 /\ Chain(k)' = n /\ thread[k] # "none"
            /\ tcpip'.at = "recv"
        BY <1>1, <2>1, <2>2 DEF ConnInv, Owns, Hooked, Chain
      <4>2. Len(hostGot[k]) \in Nat
        BY <1>1 DEF TypeOK
      <4>3. QED
        BY <1>1, <2>1, <2>3, <2>4, <4>1, <4>2 DEF ConnInv, Uplink, Live
    <3>2. Owns(k)' /\ Called(k)' /\ Flags(k)' /\ Closes(k)' /\ Waits(k)' /\ Downlink(k)'
      BY <1>1, <1>2, <2>1, <2>2, <2>3, <2>4
         DEF TypeOK, Tcpip, ConnInv, Owns, Live, Called, Callbacks, Closes, Flags,
             Waits, Downlink, InOrder, Queued, Once, Hooked
    <3>3. QED
      BY <3>1, <3>2 DEF ConnInv
  <2>8. QED
    BY <2>5, <2>6, <2>7, StepInv
<1>5. CASE RecvFin(k)
  <2>1. /\ Hooked(k)
        /\ tcpip.at = "idle"
        /\ up' = [up EXCEPT ![k].fin = TRUE]
        /\ tcpip' = [at |-> "fin", conn |-> k, left |-> 0]
        /\ UNCHANGED <<s_enabled, s_listening, mbox, pcb, arg, mem, thread, block, buf,
                       sock, shut, down, eof, hostGot, espGot, lost, fate>>
    BY <1>5 DEF RecvFin, Go, Free, listen, lwip, worker, host, given
  <2>2. TypeOK'
    <3> DEFINE r == [up[k] EXCEPT !.fin = TRUE]
    <3>1. up[k] \in [sent : Nat, fin : BOOLEAN]
      BY <1>1 DEF TypeOK
    <3>2. r \in [sent : Nat, fin : BOOLEAN]
      BY <3>1
    <3>3. up' = [up EXCEPT ![k] = r]
      BY <2>1
    <3> HIDE DEF r
    <3>4. up' \in [Conns -> [sent : Nat, fin : BOOLEAN]]
      BY <1>1, <3>2, <3>3 DEF TypeOK
    <3>5. tcpip' \in Tcpip
      BY <2>1 DEF Tcpip, Callbacks
    <3>6. QED
      BY <1>1, <2>1, <3>4, <3>5 DEF TypeOK
  <2>3. ASSUME NEW j \in Conns, j # k PROVE Same(j)
    BY <1>1, <1>2, <2>1, <2>3, CallOf, StructsKept, JobsKept DEF TypeOK, Tcpip, Same
  <2>4. ConnInv(k)'
    BY <1>1, <1>2, <2>1
       DEF TypeOK, Tcpip, ConnInv, Owns, Called, Callbacks, Flags, Closes, Waits,
           Uplink, Downlink, Chain, InOrder, Live, Queued, Once, Hooked
  <2>5. QED
    BY <2>2, <2>3, <2>4, StepInv
<1>6. CASE PcbError(k)
  <2>1. /\ Hooked(k)
        /\ tcpip.at = "idle"
        /\ pcb' = [pcb EXCEPT ![k] = "freed"]
        /\ tcpip' = [at |-> "err", conn |-> k, left |-> 0]
        /\ UNCHANGED <<s_enabled, s_listening, mbox, arg, up, mem, thread, block, buf,
                       sock, shut, down, eof, hostGot, espGot, lost, fate>>
    BY <1>6 DEF PcbError, Go, Free, listen, lwip, worker, host, given
  <2>2. TypeOK'
    BY <1>1, <2>1 DEF TypeOK, Places, Tcpip, Callbacks
  <2>3. ASSUME NEW j \in Conns, j # k PROVE Same(j)
    BY <1>1, <1>2, <2>1, <2>3, CallOf, StructsKept, JobsKept DEF TypeOK, Tcpip, Same
  <2>4. ConnInv(k)'
    BY <1>1, <1>2, <2>1
       DEF TypeOK, Tcpip, ConnInv, Owns, Called, Callbacks, Flags, Closes, Waits,
           Uplink, Downlink, Chain, InOrder, Live, Queued, Once, Hooked
  <2>5. QED
    BY <2>2, <2>3, <2>4, StepInv
<1>7. CASE HostSends(k)
  <2>1. /\ sock[k] = "open" /\ down' = [down EXCEPT ![k].sent = down[k].sent + 1]
        /\ UNCHANGED <<s_enabled, s_listening, mbox, tcpip, pcb, arg, up, mem,
                       thread, block, buf, sock, shut, eof, hostGot, espGot, lost,
                       fate>>
    BY <1>7 DEF HostSends, listen, lwip, worker, given
  <2>2. /\ down' \in [Conns -> [sent : Nat, read : Nat]] /\ down'[k].read = down[k].read
        /\ \A j \in Conns : j # k => down'[j] = down[j]
    <3> DEFINE r == [down[k] EXCEPT !.sent = down[k].sent + 1]
    <3>1. down[k] \in [sent : Nat, read : Nat] /\ down[k].sent + 1 \in Nat
      BY <1>1 DEF TypeOK
    <3>2. r \in [sent : Nat, read : Nat] /\ r.read = down[k].read
      BY <3>1
    <3>3. down' = [down EXCEPT ![k] = r]
      BY <2>1
    <3> HIDE DEF r
    <3>4. QED
      BY <1>1, <3>2, <3>3 DEF TypeOK
  <2>3. TypeOK'
    BY <1>1, <2>1, <2>2 DEF TypeOK, Places, Tcpip, Callbacks
  <2>4. ASSUME NEW j \in Conns, j # k PROVE Same(j)
    BY <1>1, <1>2, <2>1, <2>2, <2>4, CallKept, StructsKept, JobsKept
       DEF TypeOK, Tcpip, Same
  <2>5. ConnInv(k)'
    BY <1>1, <1>2, <2>1, <2>2
       DEF TypeOK, Tcpip, ConnInv, Owns, Called, Callbacks, Flags, Closes, Waits,
           Uplink, Downlink, Chain, InOrder, Live, Queued, Once
  <2>6. QED
    BY <2>3, <2>4, <2>5, StepInv
<1>8. CASE HostCloses(k)
  <2>1. /\ UNCHANGED <<s_enabled, s_listening, mbox, tcpip, pcb, arg, up, mem, thread,
                     block, buf, sock, shut, down, hostGot, espGot, lost, fate>>
        /\ eof' = [eof EXCEPT ![k] = TRUE]
    BY <1>8 DEF HostCloses, listen, lwip, worker, host, given
  <2>2. TypeOK'
    BY <1>1, <2>1 DEF TypeOK
  <2>3. \A j \in Conns : Same(j)
    BY <2>1, JobsKept, StructsKept, CallKept DEF Same
  <2>4. QED
    BY <2>2, <2>3, SameInv DEF IInv
<1>9. QED
  BY <1>3, <1>4, <1>5, <1>6, <1>7, <1>8 DEF Event

\* The thread of a connection.
LEMMA ThreadInv ==
  ASSUME IInv, NEW k \in Conns, host_to_pcb_thread(k)
  PROVE  IInv'
<1>1. TypeOK /\ ConnInv(k)
  BY DEF IInv
<1>2. None \notin Conns /\ None \notin Blocks
  BY NoneAssumption
<1>3. CASE Loop(k)
  <2>1. /\ thread[k] = "check"
        /\ \/ thread' = [thread EXCEPT ![k] = "read"]
           \/ thread' = [thread EXCEPT ![k] = "end"]
        /\ UNCHANGED <<s_enabled, s_listening, mbox, tcpip, pcb, arg, up, mem, block,
                       buf, sock, shut, down, eof, hostGot, espGot, lost, fate>>
    BY <1>3 DEF Loop, Thread, Jump, listen, lwip, worker, host, given
  <2>2. /\ Live(k) /\ block[k] \in Blocks
        /\ \A j \in Conns : j # k /\ Live(j) => block[j] \in Blocks /\ block[j] # block[k]
    BY <2>1, LiveFacts DEF Live
  <2>3. TypeOK'
    BY <1>1, <2>1, <2>2 DEF TypeOK, Places, Tcpip, Callbacks
  <2>4. ASSUME NEW j \in Conns, j # k PROVE Same(j)
    BY <1>1, <1>2, <2>1, <2>2, <2>4, CallKept, StructsKept, JobsKept
       DEF TypeOK, Tcpip, Same
  <2>5. thread'[k] \in {"read", "end"} /\ Live(k)'
    BY <1>1, <2>1 DEF TypeOK, Live
  <2>6. ConnInv(k)'
    <3>1. Owns(k)' /\ Called(k)'
      BY <1>1, <1>2, <2>1, <2>2, <2>5
         DEF TypeOK, Tcpip, ConnInv, Owns, Called, Callbacks
    <3>2. Waits(k)' /\ Closes(k)'
      BY <1>1, <2>1, <2>2, <2>5 DEF ConnInv, Closes, Waits, Queued, Once
    <3>3. Flags(k)'
      BY <1>1, <2>1, <2>2, <2>5 DEF ConnInv, Flags
    <3>4. Uplink(k)' /\ Downlink(k)'
      BY <1>1, <2>1, <2>2, <2>5 DEF ConnInv, Uplink, Chain, Downlink, InOrder
    <3>5. QED
      BY <3>1, <3>2, <3>3, <3>4 DEF ConnInv
  <2>7. QED
    BY <2>3, <2>4, <2>6, StepInv
<1>4. CASE ReadData(k)
  <2>1. /\ thread[k] = "read" /\ thread' = [thread EXCEPT ![k] = "inner"]
        /\ UNCHANGED <<s_enabled, s_listening, mbox, tcpip, pcb, arg, up, mem,
                       block, sock, shut, eof, hostGot, espGot, lost, fate>>
    BY <1>4 DEF ReadData, Thread, Jump, listen, lwip, given
  <2>2. PICK n \in 1..(down[k].sent - down[k].read) :
               /\ buf' = [buf EXCEPT ![k] = [i \in 1..n |-> down[k].read + i]]
               /\ down' = [down EXCEPT ![k].read = down[k].read + n]
    BY <1>4 DEF ReadData
  <2>3. n \in Nat /\ down[k].read \in Nat /\ down[k] \in [sent : Nat, read : Nat]
    BY <1>1 DEF TypeOK
  <2>4. /\ down' \in [Conns -> [sent : Nat, read : Nat]]
        /\ down'[k].read = down[k].read + n
        /\ \A j \in Conns : j # k => down'[j] = down[j]
    <3> DEFINE r == [down[k] EXCEPT !.read = down[k].read + n]
    <3>1. r \in [sent : Nat, read : Nat] /\ r.read = down[k].read + n
      BY <2>3
    <3>2. down' = [down EXCEPT ![k] = r]
      BY <2>2
    <3> HIDE DEF r
    <3>3. QED
      BY <1>1, <3>1, <3>2 DEF TypeOK
  <2>5. /\ buf' \in [Conns -> Seq(Nat)] /\ Len(buf'[k]) = n
        /\ \A i \in 1..n : buf'[k][i] = down[k].read + i
        /\ \A j \in Conns : j # k => buf'[j] = buf[j]
    <3> DEFINE t == [i \in 1..n |-> down[k].read + i]
    <3>1. t \in Seq(Nat) /\ Len(t) = n /\ \A i \in 1..n : t[i] = down[k].read + i
      BY <2>3
    <3>2. buf' = [buf EXCEPT ![k] = t]
      BY <2>2
    <3> HIDE DEF t
    <3>3. QED
      BY <1>1, <3>1, <3>2 DEF TypeOK
  <2>6. /\ Live(k) /\ block[k] \in Blocks
        /\ \A j \in Conns : j # k /\ Live(j) => block[j] \in Blocks /\ block[j] # block[k]
    BY <2>1, LiveFacts DEF Live
  <2>7. TypeOK'
    BY <1>1, <2>1, <2>3, <2>4, <2>5, <2>6 DEF TypeOK, Places, Tcpip, Callbacks
  <2>8. ASSUME NEW j \in Conns, j # k PROVE Same(j)
    BY <1>1, <1>2, <2>1, <2>3, <2>4, <2>5, <2>6, <2>8, CallKept, StructsKept, JobsKept
       DEF TypeOK, Tcpip, Same
  <2>9. ConnInv(k)'
    <3>1. Downlink(k)'
      <4>1. thread'[k] = "inner" /\ Len(espGot[k]) \in Nat /\ buf[k] = <<>>
        BY <1>1, <2>1 DEF TypeOK, ConnInv, Downlink
      <4>2. ASSUME mem[block[k]].alive PROVE InOrder(k)'
        <5>1. Len(espGot[k]) = down[k].read
          BY <1>1, <2>1, <2>3, <4>1, <4>2 DEF ConnInv, Downlink, InOrder
        <5>2. QED
          BY <2>1, <2>3, <2>4, <2>5, <5>1 DEF InOrder
      <4>3. QED
        BY <1>1, <2>1, <4>1, <4>2 DEF ConnInv, Downlink
    <3>2. Owns(k)' /\ Called(k)' /\ Flags(k)' /\ Closes(k)' /\ Waits(k)' /\ Uplink(k)'
      BY <1>1, <1>2, <2>1, <2>3, <2>4, <2>5, <2>6
         DEF TypeOK, Tcpip, ConnInv, Owns, Live, Called, Callbacks, Closes, Flags,
             Waits, Uplink, Chain, Queued, Once
    <3>3. QED
      BY <3>1, <3>2 DEF ConnInv
  <2>10. QED
    BY <2>7, <2>8, <2>9, StepInv
<1>5. CASE ReadEnds(k)
  <2>1. /\ thread[k] = "read"
        /\ thread' = [thread EXCEPT ![k] = "end"]
        /\ UNCHANGED <<s_enabled, s_listening, mbox, tcpip, pcb, arg, up, mem, block,
                       buf, sock, shut, down, eof, hostGot, espGot, lost, fate>>
    BY <1>5 DEF ReadEnds, Thread, Jump, listen, lwip, worker, host, given
  <2>2. /\ Live(k) /\ block[k] \in Blocks
        /\ \A j \in Conns : j # k /\ Live(j) => block[j] \in Blocks /\ block[j] # block[k]
    BY <2>1, LiveFacts DEF Live
  <2>3. TypeOK'
    BY <1>1, <2>1, <2>2 DEF TypeOK, Places, Tcpip, Callbacks
  <2>4. ASSUME NEW j \in Conns, j # k PROVE Same(j)
    BY <1>1, <1>2, <2>1, <2>2, <2>4, CallKept, StructsKept, JobsKept
       DEF TypeOK, Tcpip, Same
  <2>5. ConnInv(k)'
    BY <1>1, <1>2, <2>1, <2>2
       DEF TypeOK, Tcpip, ConnInv, Owns, Called, Callbacks, Flags, Closes, Waits,
           Uplink, Downlink, Chain, InOrder, Live, Queued, Once
  <2>6. QED
    BY <2>3, <2>4, <2>5, StepInv
<1>6. CASE tcp_write_sync(k) /\ Post("write", k) /\ Jump(k, "wait")
  <2>1. /\ thread[k] = "inner"
        /\ mem[block[k]].alive
        /\ Post("write", k)
        /\ thread' = [thread EXCEPT ![k] = "wait"]
        /\ UNCHANGED <<s_enabled, s_listening, tcpip, pcb, arg, up, mem, block, buf,
                       sock, shut, down, eof, hostGot, espGot, lost, fate>>
    BY <1>6
       DEF tcp_write_sync, Thread, Jump, MoreToWrite, c, listen, lwip, worker, host,
           given
  <2>2. /\ Live(k) /\ block[k] \in Blocks
        /\ \A j \in Conns : j # k /\ Live(j) => block[j] \in Blocks /\ block[j] # block[k]
    BY <2>1, LiveFacts DEF Live
  <2>3. /\ mbox' \in Seq(Jobs)
        /\ Queued("write", k)'
        /\ \A x, j : Queued(x, j) => Queued(x, j)'
        /\ \A x, j : Queued(x, j)' => Queued(x, j) \/ (x = "write" /\ j = k)
        /\ \A j : Once(j) /\ (j = k => ~Queued("write", j)) => Once(j)'
    BY <1>1, <2>1, PostFacts DEF TypeOK
  <2>4. TypeOK'
    BY <1>1, <2>1, <2>2, <2>3 DEF TypeOK, Places, Tcpip, Callbacks
  <2>5. ASSUME NEW j \in Conns, j # k PROVE Same(j)
    BY <1>1, <1>2, <2>1, <2>2, <2>3, <2>5, CallKept, StructsKept
       DEF TypeOK, Tcpip, Same, SameJobs
  <2>6. ConnInv(k)'
    BY <1>1, <1>2, <2>1, <2>2, <2>3
       DEF TypeOK, Tcpip, ConnInv, Owns, Called, Callbacks, Flags, Closes, Waits,
           Uplink, Downlink, Chain, InOrder, Live
  <2>7. QED
    BY <2>4, <2>5, <2>6, StepInv
<1>7. ASSUME NEW e \in {"mem", "err"}, tcp_write_sync(k), Jump(k, e), UNCHANGED mbox
      PROVE  IInv'
  <2>1. /\ thread[k] = "inner"
        /\ mem[block[k]].alive
        /\ thread' = [thread EXCEPT ![k] = e]
        /\ UNCHANGED <<s_enabled, s_listening, mbox, tcpip, pcb, arg, up, mem, block,
                       buf, sock, shut, down, eof, hostGot, espGot, lost, fate>>
    BY <1>7
       DEF tcp_write_sync, Thread, Jump, MoreToWrite, c, listen, lwip, worker, host,
           given
  <2>2. /\ Live(k) /\ block[k] \in Blocks
        /\ \A j \in Conns : j # k /\ Live(j) => block[j] \in Blocks /\ block[j] # block[k]
    BY <2>1, LiveFacts DEF Live
  <2>3. TypeOK'
    BY <1>1, <2>1, <2>2 DEF TypeOK, Places, Tcpip, Callbacks
  <2>4. ASSUME NEW j \in Conns, j # k PROVE Same(j)
    BY <1>1, <1>2, <2>1, <2>2, <2>4, CallKept, StructsKept, JobsKept
       DEF TypeOK, Tcpip, Same
  <2>5. ConnInv(k)'
    BY <1>1, <1>2, <2>1, <2>2
       DEF TypeOK, Tcpip, ConnInv, Owns, Called, Callbacks, Flags, Closes, Waits,
           Uplink, Downlink, Chain, InOrder, Live, Queued, Once
  <2>6. QED
    BY <2>3, <2>4, <2>5, StepInv
<1>8. CASE InnerEnds(k)
  <2>1. /\ thread[k] = "inner"
        /\ buf[k] = <<>> \/ ~mem[block[k]].alive \/ ~mem[block[k]].pcb
        /\ buf' = [buf EXCEPT ![k] = <<>>]
        /\ thread' = [thread EXCEPT ![k] = "check"]
        /\ UNCHANGED <<s_enabled, s_listening, mbox, tcpip, pcb, arg, up, mem, block,
                       sock, shut, down, eof, hostGot, espGot, lost, fate>>
    BY <1>8
       DEF InnerEnds, Thread, Jump, MoreToWrite, c, listen, lwip, worker, host, given
  <2>2. /\ Live(k) /\ block[k] \in Blocks
        /\ \A j \in Conns : j # k /\ Live(j) => block[j] \in Blocks /\ block[j] # block[k]
    BY <2>1, LiveFacts DEF Live
  <2>3. TypeOK'
    <3>1. <<>> \in Seq(Nat)
      OBVIOUS
    <3>2. QED
      BY <1>1, <2>1, <3>1 DEF TypeOK, Places
  <2>4. ASSUME NEW j \in Conns, j # k PROVE Same(j)
    BY <1>1, <1>2, <2>1, <2>2, <2>4, CallKept, StructsKept, JobsKept
       DEF TypeOK, Tcpip, Same
  <2>5. ConnInv(k)'
    BY <1>1, <1>2, <2>1, <2>2
       DEF TypeOK, Tcpip, ConnInv, Owns, Called, Callbacks, Flags, Closes, Waits,
           Uplink, Downlink, Chain, InOrder, Live, Queued, Once
  <2>6. QED
    BY <2>3, <2>4, <2>5, StepInv
<1>9. CASE WriteResult(k) /\ thread[k] = "ok"
  <2>1. /\ thread[k] = "ok"
        /\ buf' = [buf EXCEPT ![k] = <<>>]
        /\ thread' = [thread EXCEPT ![k] = "inner"]
        /\ UNCHANGED <<s_enabled, s_listening, mbox, tcpip, pcb, arg, up, mem, block,
                       sock, shut, down, eof, hostGot, espGot, lost, fate>>
    BY <1>9 DEF WriteResult, Jump, listen, lwip, worker, host, given
  <2>2. /\ Live(k) /\ block[k] \in Blocks
        /\ \A j \in Conns : j # k /\ Live(j) => block[j] \in Blocks /\ block[j] # block[k]
    BY <2>1, LiveFacts DEF Live
  <2>3. TypeOK'
    <3>1. <<>> \in Seq(Nat)
      OBVIOUS
    <3>2. QED
      BY <1>1, <2>1, <3>1 DEF TypeOK, Places
  <2>4. ASSUME NEW j \in Conns, j # k PROVE Same(j)
    BY <1>1, <1>2, <2>1, <2>2, <2>4, CallKept, StructsKept, JobsKept
       DEF TypeOK, Tcpip, Same
  <2>5. ConnInv(k)'
    BY <1>1, <1>2, <2>1, <2>2
       DEF TypeOK, Tcpip, ConnInv, Owns, Called, Callbacks, Flags, Closes, Waits,
           Uplink, Downlink, Chain, InOrder, Live, Queued, Once
  <2>6. QED
    BY <2>3, <2>4, <2>5, StepInv
<1>10. CASE WriteResult(k) /\ thread[k] = "mem"
  <2>1. /\ thread[k] = "mem"
        /\ thread' = [thread EXCEPT ![k] = "inner"]
        /\ UNCHANGED <<s_enabled, s_listening, mbox, tcpip, pcb, arg, up, mem, block,
                       buf, sock, shut, down, eof, hostGot, espGot, lost, fate>>
    BY <1>10 DEF WriteResult, Jump, listen, lwip, worker, host, given
  <2>2. /\ Live(k) /\ block[k] \in Blocks
        /\ \A j \in Conns : j # k /\ Live(j) => block[j] \in Blocks /\ block[j] # block[k]
    BY <2>1, LiveFacts DEF Live
  <2>3. TypeOK'
    BY <1>1, <2>1, <2>2 DEF TypeOK, Places, Tcpip, Callbacks
  <2>4. ASSUME NEW j \in Conns, j # k PROVE Same(j)
    BY <1>1, <1>2, <2>1, <2>2, <2>4, CallKept, StructsKept, JobsKept
       DEF TypeOK, Tcpip, Same
  <2>5. ConnInv(k)'
    BY <1>1, <1>2, <2>1, <2>2
       DEF TypeOK, Tcpip, ConnInv, Owns, Called, Callbacks, Flags, Closes, Waits,
           Uplink, Downlink, Chain, InOrder, Live, Queued, Once
  <2>6. QED
    BY <2>3, <2>4, <2>5, StepInv
<1>11. CASE WriteResult(k) /\ thread[k] = "err"
  <2>1. /\ thread[k] = "err"
        /\ thread' = [thread EXCEPT ![k] = "inner"]
        /\ mem' = Put(block[k], "alive", FALSE)
        /\ UNCHANGED <<s_enabled, s_listening, mbox, tcpip, pcb, arg, up, block, buf,
                       sock, shut, down, eof, hostGot, espGot, lost, fate>>
    BY <1>11 DEF WriteResult, Jump, listen, lwip, worker, host, given
  <2>2. /\ Live(k) /\ block[k] \in Blocks
        /\ \A j \in Conns : j # k /\ Live(j) => block[j] \in Blocks /\ block[j] # block[k]
    BY <2>1, LiveFacts DEF Live
  <2>3. Turns(block[k], mem[block[k]].pcb, mem[block[k]].fd, FALSE)
    BY <1>1, <2>1, <2>2, PutAlive DEF TypeOK
  <2>4. TypeOK'
    BY <1>1, <2>1, <2>2, <2>3 DEF TypeOK, Places, Tcpip, Callbacks, Turns
  <2>5. ASSUME NEW j \in Conns, j # k PROVE Same(j)
    BY <1>1, <1>2, <2>1, <2>2, <2>3, <2>5, CallKept, StructOf, JobsKept
       DEF TypeOK, Tcpip, Same
  <2>6. ConnInv(k)'
    <3>1. Owns(k)'
      BY <1>1, <2>1, <2>2, <2>3, OwnsKept DEF TypeOK, ConnInv, Turns, Live
    <3>2. Called(k)' /\ Waits(k)' /\ Closes(k)'
      BY <1>1, <1>2, <2>1, <2>2, <2>3
         DEF TypeOK, Tcpip, ConnInv, Called, Callbacks, Closes, Waits, Flags, Live,
             Turns, Queued, Once
    <3>3. Flags(k)'
      BY <1>1, <1>2, <2>1, <2>2, <2>3
         DEF TypeOK, Tcpip, ConnInv, Flags, Called, Callbacks, Live, Turns
    <3>4. Uplink(k)' /\ Downlink(k)'
      BY <1>1, <1>2, <2>1, <2>2, <2>3
         DEF TypeOK, Tcpip, ConnInv, Uplink, Flags, Chain, Live, Downlink, InOrder,
             Waits, Turns
    <3>5. QED
      BY <3>1, <3>2, <3>3, <3>4 DEF ConnInv
  <2>7. QED
    BY <2>4, <2>5, <2>6, StepInv
<1>12. CASE EndClearsAlive(k)
  <2>1. /\ thread[k] = "end"
        /\ thread' = [thread EXCEPT ![k] = "unhook"]
        /\ mem' = Put(block[k], "alive", FALSE)
        /\ UNCHANGED <<s_enabled, s_listening, mbox, tcpip, pcb, arg, up, block, buf,
                       sock, shut, down, eof, hostGot, espGot, lost, fate>>
    BY <1>12 DEF EndClearsAlive, Thread, Jump, listen, lwip, worker, host, given
  <2>2. /\ Live(k) /\ block[k] \in Blocks
        /\ \A j \in Conns : j # k /\ Live(j) => block[j] \in Blocks /\ block[j] # block[k]
    BY <2>1, LiveFacts DEF Live
  <2>3. Turns(block[k], mem[block[k]].pcb, mem[block[k]].fd, FALSE)
    BY <1>1, <2>1, <2>2, PutAlive DEF TypeOK
  <2>4. TypeOK'
    BY <1>1, <2>1, <2>2, <2>3 DEF TypeOK, Places, Tcpip, Callbacks, Turns
  <2>5. ASSUME NEW j \in Conns, j # k PROVE Same(j)
    BY <1>1, <1>2, <2>1, <2>2, <2>3, <2>5, CallKept, StructOf, JobsKept
       DEF TypeOK, Tcpip, Same
  <2>6. ConnInv(k)'
    <3>1. Owns(k)'
      BY <1>1, <2>1, <2>2, <2>3, OwnsKept DEF TypeOK, ConnInv, Turns, Live
    <3>2. Called(k)' /\ Waits(k)' /\ Closes(k)'
      BY <1>1, <1>2, <2>1, <2>2, <2>3
         DEF TypeOK, Tcpip, ConnInv, Called, Callbacks, Closes, Waits, Flags, Live,
             Turns, Queued, Once
    <3>3. Flags(k)'
      BY <1>1, <1>2, <2>1, <2>2, <2>3
         DEF TypeOK, Tcpip, ConnInv, Flags, Called, Callbacks, Live, Turns
    <3>4. Uplink(k)' /\ Downlink(k)'
      BY <1>1, <1>2, <2>1, <2>2, <2>3
         DEF TypeOK, Tcpip, ConnInv, Uplink, Flags, Chain, Live, Downlink, InOrder,
             Waits, Turns
    <3>5. QED
      BY <3>1, <3>2, <3>3, <3>4 DEF ConnInv
  <2>7. QED
    BY <2>4, <2>5, <2>6, StepInv
<1>13. CASE PostClose(k) /\ Post("close", k) /\ UNCHANGED lost
  <2>1. /\ thread[k] = "post"
        /\ Post("close", k)
        /\ thread' = [thread EXCEPT ![k] = "close"]
        /\ mem' = Put(block[k], "pcb", FALSE)
        /\ UNCHANGED <<s_enabled, s_listening, tcpip, pcb, arg, up, block, buf, sock,
                       shut, down, eof, hostGot, espGot, lost, fate>>
    BY <1>13 DEF PostClose, Thread, Jump, c, listen, lwip, worker, host, given
  <2>2. /\ Live(k) /\ block[k] \in Blocks
        /\ \A j \in Conns : j # k /\ Live(j) => block[j] \in Blocks /\ block[j] # block[k]
    BY <2>1, LiveFacts DEF Live
  <2>3. Turns(block[k], FALSE, mem[block[k]].fd, mem[block[k]].alive)
    BY <1>1, <2>1, <2>2, PutPcb DEF TypeOK
  <2>4. /\ mbox' \in Seq(Jobs)
        /\ Queued("close", k)'
        /\ \A x, j : Queued(x, j) => Queued(x, j)'
        /\ \A x, j : Queued(x, j)' => Queued(x, j) \/ (x = "close" /\ j = k)
        /\ \A j : Once(j) => Once(j)'
    BY <1>1, <2>1, PostFacts DEF TypeOK
  <2>5. TypeOK'
    BY <1>1, <2>1, <2>2, <2>3, <2>4 DEF TypeOK, Places, Tcpip, Callbacks, Turns
  <2>6. ASSUME NEW j \in Conns, j # k PROVE Same(j)
    BY <1>1, <1>2, <2>1, <2>2, <2>3, <2>4, <2>6, CallKept, StructOf
       DEF TypeOK, Tcpip, Same, SameJobs
  <2>7. ConnInv(k)'
    <3>1. Owns(k)'
      BY <1>1, <2>1, <2>2, <2>3, OwnsKept DEF TypeOK, ConnInv, Turns, Live
    <3>2. Called(k)' /\ Waits(k)' /\ Closes(k)'
      BY <1>1, <1>2, <2>1, <2>2, <2>3, <2>4
         DEF TypeOK, Tcpip, ConnInv, Called, Callbacks, Closes, Waits, Flags, Live,
             Turns
    <3>3. Flags(k)'
      BY <1>1, <1>2, <2>1, <2>2, <2>3, <2>4
         DEF TypeOK, Tcpip, ConnInv, Flags, Called, Callbacks, Live, Turns
    <3>4. Uplink(k)' /\ Downlink(k)'
      BY <1>1, <1>2, <2>1, <2>2, <2>3, <2>4
         DEF TypeOK, Tcpip, ConnInv, Uplink, Flags, Chain, Live, Downlink, InOrder,
             Waits, Turns
    <3>5. QED
      BY <3>1, <3>2, <3>3, <3>4 DEF ConnInv
  <2>8. QED
    BY <2>5, <2>6, <2>7, StepInv
<1>14. CASE PostClose(k) /\ UNCHANGED mbox /\ lost' = [lost EXCEPT ![k] = TRUE]
  <2>1. /\ thread[k] = "post"
        /\ lost' = [lost EXCEPT ![k] = TRUE]
        /\ thread' = [thread EXCEPT ![k] = "close"]
        /\ mem' = Put(block[k], "pcb", FALSE)
        /\ UNCHANGED <<s_enabled, s_listening, mbox, tcpip, pcb, arg, up, block, buf,
                       sock, shut, down, eof, hostGot, espGot, fate>>
    BY <1>14 DEF PostClose, Thread, Jump, listen, lwip, worker, host, given
  <2>2. /\ Live(k) /\ block[k] \in Blocks
        /\ \A j \in Conns : j # k /\ Live(j) => block[j] \in Blocks /\ block[j] # block[k]
    BY <2>1, LiveFacts DEF Live
  <2>3. Turns(block[k], FALSE, mem[block[k]].fd, mem[block[k]].alive)
    BY <1>1, <2>1, <2>2, PutPcb DEF TypeOK
  <2>4. TypeOK'
    BY <1>1, <2>1, <2>2, <2>3 DEF TypeOK, Places, Tcpip, Callbacks, Turns
  <2>5. ASSUME NEW j \in Conns, j # k PROVE Same(j)
    BY <1>1, <1>2, <2>1, <2>2, <2>3, <2>5, CallKept, StructOf, JobsKept
       DEF TypeOK, Tcpip, Same
  <2>6. ConnInv(k)'
    <3>1. Owns(k)'
      BY <1>1, <2>1, <2>2, <2>3, OwnsKept DEF TypeOK, ConnInv, Turns, Live
    <3>2. Called(k)' /\ Waits(k)' /\ Closes(k)'
      BY <1>1, <1>2, <2>1, <2>2, <2>3
         DEF TypeOK, Tcpip, ConnInv, Called, Callbacks, Closes, Waits, Flags, Live,
             Turns, Queued, Once
    <3>3. Flags(k)'
      BY <1>1, <1>2, <2>1, <2>2, <2>3
         DEF TypeOK, Tcpip, ConnInv, Flags, Called, Callbacks, Live, Turns
    <3>4. Uplink(k)' /\ Downlink(k)'
      BY <1>1, <1>2, <2>1, <2>2, <2>3
         DEF TypeOK, Tcpip, ConnInv, Uplink, Flags, Chain, Live, Downlink, InOrder,
             Waits, Turns
    <3>5. QED
      BY <3>1, <3>2, <3>3, <3>4 DEF ConnInv
  <2>7. QED
    BY <2>4, <2>5, <2>6, StepInv
<1>15. CASE CloseFd(k)
  <2>1. /\ thread[k] = "close"
        /\ sock' = [sock EXCEPT ![k] = "closed"]
        /\ shut' = [shut EXCEPT ![k] = "no"]
        /\ down' = [down EXCEPT ![k] = [sent |-> 0, read |-> 0]]
        /\ eof' = [eof EXCEPT ![k] = FALSE]
        /\ thread' = [thread EXCEPT ![k] = "forget"]
        /\ UNCHANGED <<s_enabled, s_listening, mbox, tcpip, pcb, arg, up, mem, block,
                       buf, hostGot, espGot, lost, fate>>
    BY <1>15 DEF CloseFd, Thread, Jump, listen, lwip, worker, host, given
  <2>2. /\ Live(k) /\ block[k] \in Blocks
        /\ \A j \in Conns : j # k /\ Live(j) => block[j] \in Blocks /\ block[j] # block[k]
    BY <2>1, LiveFacts DEF Live
  <2>3. TypeOK'
    BY <1>1, <2>1, <2>2 DEF TypeOK, Places, Tcpip, Callbacks
  <2>4. ASSUME NEW j \in Conns, j # k PROVE Same(j)
    BY <1>1, <1>2, <2>1, <2>2, <2>4, CallKept, StructsKept, JobsKept
       DEF TypeOK, Tcpip, Same
  <2>5. ConnInv(k)'
    BY <1>1, <1>2, <2>1, <2>2
       DEF TypeOK, Tcpip, ConnInv, Owns, Called, Callbacks, Flags, Closes, Waits,
           Uplink, Downlink, Chain, InOrder, Live, Queued, Once
  <2>6. QED
    BY <2>3, <2>4, <2>5, StepInv
<1>16. CASE ForgetFd(k)
  <2>1. /\ thread[k] = "forget"
        /\ thread' = [thread EXCEPT ![k] = "free"]
        /\ mem' = Put(block[k], "fd", FALSE)
        /\ UNCHANGED <<s_enabled, s_listening, mbox, tcpip, pcb, arg, up, block, buf,
                       sock, shut, down, eof, hostGot, espGot, lost, fate>>
    BY <1>16 DEF ForgetFd, Thread, Jump, listen, lwip, worker, host, given
  <2>2. /\ Live(k) /\ block[k] \in Blocks
        /\ \A j \in Conns : j # k /\ Live(j) => block[j] \in Blocks /\ block[j] # block[k]
    BY <2>1, LiveFacts DEF Live
  <2>3. Turns(block[k], mem[block[k]].pcb, FALSE, mem[block[k]].alive)
    BY <1>1, <2>1, <2>2, PutFd DEF TypeOK
  <2>4. TypeOK'
    BY <1>1, <2>1, <2>2, <2>3 DEF TypeOK, Places, Tcpip, Callbacks, Turns
  <2>5. ASSUME NEW j \in Conns, j # k PROVE Same(j)
    BY <1>1, <1>2, <2>1, <2>2, <2>3, <2>5, CallKept, StructOf, JobsKept
       DEF TypeOK, Tcpip, Same
  <2>6. ConnInv(k)'
    <3>1. Owns(k)'
      BY <1>1, <2>1, <2>2, <2>3, OwnsKept DEF TypeOK, ConnInv, Turns, Live
    <3>2. Called(k)' /\ Waits(k)' /\ Closes(k)'
      BY <1>1, <1>2, <2>1, <2>2, <2>3
         DEF TypeOK, Tcpip, ConnInv, Called, Callbacks, Closes, Waits, Flags, Live,
             Turns, Queued, Once
    <3>3. Flags(k)'
      BY <1>1, <1>2, <2>1, <2>2, <2>3
         DEF TypeOK, Tcpip, ConnInv, Flags, Called, Callbacks, Live, Turns
    <3>4. Uplink(k)' /\ Downlink(k)'
      BY <1>1, <1>2, <2>1, <2>2, <2>3
         DEF TypeOK, Tcpip, ConnInv, Uplink, Flags, Chain, Live, Downlink, InOrder,
             Waits, Turns
    <3>5. QED
      BY <3>1, <3>2, <3>3, <3>4 DEF ConnInv
  <2>7. QED
    BY <2>4, <2>5, <2>6, StepInv
<1>17. CASE FreeConn(k)
  <2>1. /\ thread[k] = "free"
        /\ mem' = [mem EXCEPT ![block[k]] = Freed]
        /\ thread' = [thread EXCEPT ![k] = "gone"]
        /\ UNCHANGED <<s_enabled, s_listening, mbox, tcpip, pcb, arg, up, block, buf,
                       sock, shut, down, eof, hostGot, espGot, lost, fate>>
    BY <1>17 DEF FreeConn, Thread, Jump, listen, lwip, worker, host, given
  <2>2. /\ Live(k) /\ block[k] \in Blocks
        /\ \A j \in Conns : j # k /\ Live(j) => block[j] \in Blocks /\ block[j] # block[k]
    BY <2>1, LiveFacts DEF Live
  <2>3. TypeOK'
    BY <1>1, <2>1, <2>2 DEF TypeOK, Places, Tcpip, Callbacks, Conn, Freed
  <2>4. ASSUME NEW j \in Conns, j # k PROVE Same(j)
    BY <1>1, <1>2, <2>1, <2>2, <2>4, CallKept, JobsKept
       DEF TypeOK, Tcpip, Same, SameStruct, Freed
  <2>5. ConnInv(k)'
    <3>1. Owns(k)' /\ Called(k)' /\ Closes(k)' /\ Waits(k)'
      BY <1>1, <1>2, <2>1, <2>2
         DEF TypeOK, Tcpip, ConnInv, Owns, Called, Callbacks, Closes, Waits, Live,
             Queued, Once, Freed
    <3>2. Flags(k)'
      BY <1>1, <1>2, <2>1, <2>2
         DEF TypeOK, Tcpip, ConnInv, Owns, Called, Callbacks, Flags, Live, Freed
    <3>3. Uplink(k)' /\ Downlink(k)'
      BY <1>1, <1>2, <2>1, <2>2
         DEF TypeOK, Tcpip, ConnInv, Owns, Called, Callbacks, Flags, Uplink, Downlink,
             Chain, InOrder, Live, Freed
    <3>4. QED
      BY <3>1, <3>2, <3>3 DEF ConnInv
  <2>6. QED
    BY <2>3, <2>4, <2>5, StepInv
<1>18. CASE Unhook(k)
  <2>1. /\ thread[k] = "unhook"
        /\ thread' = [thread EXCEPT ![k] = IF mem[block[k]].pcb THEN "post" ELSE "close"]
        /\ UNCHANGED <<s_enabled, s_listening, mbox, tcpip, pcb, arg, up, mem, block,
                       buf, sock, shut, down, eof, hostGot, espGot, lost, fate>>
    BY <1>18 DEF Unhook, Thread, Jump, c, listen, lwip, worker, host, given
  <2>2. Live(k) /\ block[k] \in Blocks
    BY <2>1, LiveFacts DEF Live
  <2>3. TypeOK'
    BY <1>1, <2>1, <2>2 DEF TypeOK, Places, Tcpip, Callbacks
  <2>4. ASSUME NEW j \in Conns, j # k PROVE Same(j)
    BY <1>1, <1>2, <2>1, <2>2, <2>4, CallKept, StructsKept, JobsKept
       DEF TypeOK, Tcpip, Same
  <2>5. ConnInv(k)'
    <3>1. ~mem[block[k]].pcb => pcb[k] = "freed"
      BY <1>1, <2>1, <2>2 DEF ConnInv, Flags
    <3>2. QED
      BY <1>1, <1>2, <2>1, <2>2, <3>1
         DEF TypeOK, Tcpip, ConnInv, Owns, Called, Callbacks, Flags, Closes, Waits,
             Uplink, Downlink, Chain, InOrder, Live, Queued, Once
  <2>6. QED
    BY <2>3, <2>4, <2>5, StepInv
<1>19. QED
  BY <1>3, <1>4, <1>5, <1>6, <1>7, <1>8, <1>9, <1>10, <1>11, <1>12, <1>13, <1>14,
     <1>15, <1>16, <1>17, <1>18
     DEF host_to_pcb_thread, tcp_write_sync, WriteResult, PostClose

-----------------------------------------------------------------------------
(***************************************************************************)
(* The theorems.                                                           *)
(***************************************************************************)
\* The invariant holds before the link is up.
LEMMA IInvInit == Init => IInv
<1> SUFFICES ASSUME Init PROVE IInv
  OBVIOUS
<1>1. s_enabled \in BOOLEAN /\ s_listening \in BOOLEAN
  BY Zenon DEF Init
<1>2. mbox = <<>> /\ mbox \in Seq(Jobs) /\ <<>> \in Seq(Nat) /\ DOMAIN mbox = {}
  BY DEF Init
<1>3. mem \in [Blocks -> Conn]
  BY DEF Init, Freed, Conn
<1>4. TypeOK
  BY <1>1, <1>2, <1>3 DEF Init, TypeOK, Tcpip, Idle, Places
<1>5. ASSUME NEW k \in Conns PROVE ConnInv(k)
  <2>1. /\ thread[k] = "none" /\ arg[k] = None /\ pcb[k] = "none" /\ buf[k] = <<>>
        /\ hostGot[k] = <<>> /\ espGot[k] = <<>> /\ up[k].sent = 0 /\ down[k].read = 0
        /\ sock[k] = "none" /\ tcpip.conn = None /\ tcpip.at = "idle"
        /\ \A b \in Blocks : mem[b].own = None
    BY DEF Init, Idle, Freed
  <2>2. ~Queued("write", k) /\ Once(k) /\ ~Live(k)
    BY <1>2, <2>1 DEF Queued, Once, Live
  <2>3. QED
    BY <2>1, <2>2, NoneAssumption
       DEF ConnInv, Owns, Called, Callbacks, Flags, Closes, Waits, Uplink, Downlink, InOrder
<1>6. QED
  BY <1>4, <1>5 DEF IInv

\* Every step preserves it.
LEMMA IInvNext == IInv /\ [Next]_vars => IInv'
<1> SUFFICES ASSUME IInv, [Next]_vars PROVE IInv'
  OBVIOUS
<1>1. CASE UNCHANGED vars
  <2>1. TypeOK'
    BY <1>1 DEF IInv, TypeOK, vars, listen, lwip, worker, host, given
  <2>2. \A j \in Conns : Same(j)
    BY <1>1, JobsKept, StructsKept, CallKept DEF Same, vars, lwip, worker, host, given
  <2>3. QED
    BY <2>1, <2>2, SameInv DEF IInv
<1>2. CASE Next
  BY <1>2, ListeningInv, TcpipInv, EventInv, ThreadInv DEF Next
<1>3. QED
  BY <1>1, <1>2

\* The invariant holds throughout every behaviour of the forwarder, for any number of
\* connections and whatever the two ends send.
THEOREM Invariance == Spec => []IInv
BY IInvInit, IInvNext, PTL DEF Spec

\* A callback of an open connection has a dangling pointer only from the thread's
\* free(c) to the close_pcb_cb it posted before, or when that could not be posted.
THEOREM DanglingIsBrief == Spec => []DanglesOnlyUntilClose
<1>1. IInv => DanglesOnlyUntilClose
  <2> SUFFICES ASSUME IInv, NEW k \in Conns, Hooked(k), ~Valid(k)
               PROVE  Queued("close", k) \/ lost[k]
    BY DEF DanglesOnlyUntilClose
  <2>1. ~Live(k) /\ thread[k] # "none"
    BY DEF IInv, ConnInv, Owns, Hooked, Valid
  <2>2. QED
    BY <2>1 DEF IInv, ConnInv, Closes, Hooked, Live
<1>2. QED
  BY <1>1, Invariance, PTL

\* Each end gets what the other sent in order, each segment once and with none left out.
THEOREM StreamsHaveNoGaps == Spec => []NoGaps
<1>1. IInv => NoGaps
  <2> SUFFICES ASSUME IInv, NEW k \in Conns
               PROVE  /\ \A i \in DOMAIN hostGot[k] : hostGot[k][i] = i
                      /\ \A i \in DOMAIN espGot[k] : espGot[k][i] = i
    BY DEF NoGaps
  <2>1. hostGot[k] \in Seq(Nat) /\ espGot[k] \in Seq(Nat)
    BY DEF IInv, TypeOK
  <2>2. DOMAIN hostGot[k] = 1..Len(hostGot[k]) /\ DOMAIN espGot[k] = 1..Len(espGot[k])
    BY <2>1
  <2>3. QED
    BY <2>2 DEF IInv, ConnInv, Uplink, Downlink
<1>2. QED
  BY <1>1, Invariance, PTL

\* When the thread of a connection is gone and the mailbox is empty, its socket is
\* closed and its struct is free, and lwIP calls back no more unless close_pcb_cb
\* could not be posted.
THEOREM ThreadsCleanUp == Spec => []NothingLeftBehind
<1>1. IInv => NothingLeftBehind
  <2> SUFFICES ASSUME IInv, NEW k \in Conns, mbox = <<>>, thread[k] = "gone"
               PROVE  /\ sock[k] = "closed"
                      /\ \A b \in Blocks : mem[b].own # k
                      /\ Hooked(k) => lost[k]
    BY DEF NothingLeftBehind
  <2>1. ~Queued("close", k)
    BY DEF Queued
  <2>2. QED
    BY <2>1 DEF IInv, ConnInv, Owns, Closes, Hooked, Live
<1>2. QED
  BY <1>1, Invariance, PTL
=============================================================================
