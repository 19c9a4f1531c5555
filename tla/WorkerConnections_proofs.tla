---------------------- MODULE WorkerConnections_proofs ----------------------
(***************************************************************************)
(* Proofs about WorkerConnections for every pool, every number of imports  *)
(* below its size, and any other callers.                                  *)
(***************************************************************************)
EXTENDS WorkerConnections, FiniteSetTheorems, TLAPS

(* Only imports use a connection for COPY.                                 *)
CopyOwners ==
  \A o \in Callers \ Imports :
    /\ \A c \in Connections : user[c] # Use(o, "copy")
    /\ \A m \in DOMAIN line : line[m] # Use(o, "copy")

(* An import has one, from pool.connect to its finally block.              *)
CopyHeld ==
  \A i \in Imports, c \in Connections : user[c] = Use(i, "copy") =>
    /\ pc[i] \notin {"idle", "mark"}
    /\ \A d \in Connections : user[d] = Use(i, "copy") => d = c

(* It asks for it once, while it has none.                                 *)
CopyAsked ==
  \A i \in Imports, m \in DOMAIN line : line[m] = Use(i, "copy") =>
    /\ pc[i] = "connect"
    /\ \A n \in DOMAIN line : line[n] = Use(i, "copy") => n = m
    /\ \A c \in Connections : user[c] # Use(i, "copy")

(* A stream is open only while its import waits for the batch.             *)
FlowFits == \A i \in Imports : flow[i] # "closed" => pc[i] = "copy"

(* An import waits for its statements where it sends them.                 *)
Waiting == {"mark", "work", "catch"}

StatementFits == \A i \in Imports : pc[i] \notin Waiting => Settled(i)

Inv == CopyOwners /\ CopyHeld /\ CopyAsked /\ FlowFits /\ StatementFits
IInv == TypeOK /\ Inv

-----------------------------------------------------------------------------
(* Lemmas about the operators of the pool.                                 *)
LEMMA UseInjective ==
  ASSUME NEW a, NEW b, NEW w, NEW v
  PROVE  /\ Use(a, w) = Use(b, v) <=> a = b /\ w = v
         /\ Use(a, w)[1] = a /\ Use(a, w)[2] = w
  BY DEF Use

LEMMA UseForms ==
  ASSUME NEW u \in Uses \cup {Free}
  PROVE  /\ u = Free \/ \E o \in Callers, w \in {"copy", "statement", "stray"} : u = Use(o, w)
         /\ u \in Uses => u # Free
  BY PoolAssumption DEF Uses, Use, Free

LEMMA UseTyped ==
  /\ \A o \in Callers, w \in {"copy", "statement", "stray"} : Use(o, w) \in Uses
  /\ \A o, w : w # "free" => Use(o, w) # Free
  BY DEF Uses, Use, Free

LEMMA ImportsCall == Imports \subseteq Callers
  BY WorkerAssumption

(* What happens to the line when a caller asks, and is served.             *)
LEMMA AskAppends ==
  ASSUME line \in Seq(Uses), NEW use \in Uses, NEW n \in Nat, Ask(use, n)
  PROVE  /\ line' \in Seq(Uses)
         /\ DOMAIN line' = 1..(Len(line) + n)
         /\ DOMAIN line = 1..Len(line)
         /\ \A m \in DOMAIN line : m \in DOMAIN line' /\ line'[m] = line[m]
         /\ \A m \in DOMAIN line' \ DOMAIN line : line'[m] = use
         /\ user' = user
<1> DEFINE new == [m \in 1..n |-> use]
<1>1. new \in Seq(Uses) /\ Len(new) = n
  OBVIOUS
<1>2. line' = line \o new /\ user' = user
  BY DEF Ask
<1> HIDE DEF new
<1>a. (line \o new) \in Seq(Uses) /\ Len(line \o new) = Len(line) + Len(new)
  BY <1>1
<1>3. line' \in Seq(Uses) /\ Len(line') = Len(line) + n
  BY <1>1, <1>2, <1>a
<1>4. \A m \in 1..(Len(line) + n) :
        line'[m] = IF m <= Len(line) THEN line[m] ELSE new[m - Len(line)]
  BY <1>1, <1>2
<1>5. \A m \in 1..n : new[m] = use
  BY DEF new
<1>6. DOMAIN line' = 1..(Len(line) + n) /\ DOMAIN line = 1..Len(line)
  BY <1>3
<1>7. \A m \in DOMAIN line : m \in DOMAIN line' /\ line'[m] = line[m]
  BY <1>4, <1>6
<1>8. \A m \in DOMAIN line' \ DOMAIN line : line'[m] = use
  BY <1>4, <1>5, <1>6
<1> QED BY <1>2, <1>3, <1>6, <1>7, <1>8

LEMMA TailShifts ==
  ASSUME NEW S, NEW s \in Seq(S), s # <<>>
  PROVE  /\ Tail(s) \in Seq(S)
         /\ Head(s) = s[1] /\ 1 \in DOMAIN s /\ s[1] \in S
         /\ \A m \in DOMAIN Tail(s) : m + 1 \in DOMAIN s /\ Tail(s)[m] = s[m + 1] /\ m \in Nat
         /\ \A m \in DOMAIN Tail(s), n \in DOMAIN Tail(s) : m + 1 = n + 1 => m = n
         /\ \A m \in DOMAIN Tail(s) : m + 1 # 1
  OBVIOUS

(* An abandoned statement is no longer awaited; nothing else changes.      *)
LEMMA AbandonKeeps ==
  ASSUME NEW use \in Uses \cup {Free}, NEW o \in Callers
  PROVE  /\ Abandon(use, o) \in Uses \cup {Free}
         /\ use \in Uses => Abandon(use, o) \in Uses
         /\ Abandon(use, o) # Use(o, "statement")
         /\ \A q : Abandon(use, o) = Use(q, "copy") <=> use = Use(q, "copy")
         /\ \A q : Abandon(use, o) = Use(q, "statement") => use = Use(q, "statement")
  BY DEF Abandon, Use, Uses, Free

LEMMA InitIInv == Init => IInv
<1> SUFFICES ASSUME Init PROVE IInv
  OBVIOUS
<1>1. /\ line = <<>> /\ \A c \in Connections : user[c] = Free
      /\ \A i \in Imports : flow[i] = "closed"
  BY DEF Init, PoolInit, CopyInit
<1>2. TypeOK
  BY WorkerAssumption, CopyAssumption
     DEF Init, PoolInit, CopyInit, TypeOK, PoolTypeOK, CopyTypeOK, ImportPcs
<1>3. Inv
  BY <1>1, UseTyped
     DEF Inv, CopyOwners, CopyHeld, CopyAsked, FlowFits, StatementFits, Settled, Holds
<1> QED BY <1>2, <1>3 DEF IInv

-----------------------------------------------------------------------------
(* A caller sends statements and waits for them at "at".                   *)
LEMMA SendKeeps ==
  ASSUME IInv, NEW o \in Callers, NEW at \in Waiting, NEW n \in Nat,
         Send(o, n), GoTo(o, at), UNCHANGED copyVars,
         steps' \in [Imports -> 0..MaxSteps],
         \/ pc[o] \notin {"copy", "connect"}
         \/ pc[o] = "connect" /\ Holds(Use(o, "copy")) # {},
         o \in Imports /\ at = "mark" => pc[o] = "idle"
  PROVE  IInv'
<1> USE UseInjective
<1>0. TypeOK /\ Inv /\ line \in Seq(Uses)
  BY DEF IInv, TypeOK, PoolTypeOK
<1>1. /\ line' \in Seq(Uses)
      /\ \A m \in DOMAIN line : m \in DOMAIN line' /\ line'[m] = line[m]
      /\ \A m \in DOMAIN line' \ DOMAIN line : line'[m] = Use(o, "statement")
      /\ user' = user
  BY <1>0, UseTyped, AskAppends DEF Send
<1>2. /\ pc' \in [Callers -> ImportPcs] /\ pc'[o] = at
      /\ \A q \in Callers : q # o => pc'[q] = pc[q]
  BY <1>0 DEF GoTo, TypeOK, ImportPcs, Waiting
<1>3. TypeOK'
  BY <1>0, <1>1, <1>2 DEF TypeOK, PoolTypeOK, CopyTypeOK, copyVars
<1>4. CopyOwners'
  BY <1>0, <1>1 DEF Inv, CopyOwners
<1>5. CopyHeld'
  BY <1>0, <1>1, <1>2, ImportsCall DEF Inv, CopyHeld, Waiting
<1>6. CopyAsked'
  <2> SUFFICES ASSUME NEW i \in Imports, NEW m \in DOMAIN line', line'[m] = Use(i, "copy")
               PROVE  /\ pc'[i] = "connect"
                      /\ \A k \in DOMAIN line' : line'[k] = Use(i, "copy") => k = m
                      /\ \A c \in Connections : user'[c] # Use(i, "copy")
    BY DEF CopyAsked
  <2>1. m \in DOMAIN line /\ line[m] = Use(i, "copy")
    BY <1>1
  <2>2. /\ pc[i] = "connect"
        /\ \A k \in DOMAIN line : line[k] = Use(i, "copy") => k = m
        /\ \A c \in Connections : user[c] # Use(i, "copy")
    BY <1>0, <2>1 DEF Inv, CopyAsked
  <2>3. i # o
    BY <2>2 DEF Holds
  <2> QED BY <1>1, <1>2, <2>2, <2>3, ImportsCall
<1>7. FlowFits'
  BY <1>0, <1>2, ImportsCall DEF Inv, FlowFits, copyVars
<1>8. StatementFits'
  BY <1>0, <1>1, <1>2, ImportsCall DEF Inv, StatementFits, Settled, Holds
<1> QED BY <1>3, <1>4, <1>5, <1>6, <1>7, <1>8 DEF IInv, Inv

(* The import asks for its connection.                                     *)
LEMMA ConnectKeeps == ASSUME IInv, NEW o \in Imports, Connect(o) PROVE IInv'
<1> USE UseInjective
<1>0. TypeOK /\ Inv /\ line \in Seq(Uses) /\ o \in Callers
  BY ImportsCall DEF IInv, TypeOK, PoolTypeOK
<1>a. Ask(Use(o, "copy"), 1) /\ Use(o, "copy") \in Uses
  BY <1>0, UseTyped DEF Connect
<1>1. /\ line' \in Seq(Uses)
      /\ DOMAIN line' = 1..(Len(line) + 1) /\ DOMAIN line = 1..Len(line)
      /\ \A m \in DOMAIN line : m \in DOMAIN line' /\ line'[m] = line[m]
      /\ \A m \in DOMAIN line' \ DOMAIN line : line'[m] = Use(o, "copy")
      /\ user' = user
  BY <1>0, <1>a, AskAppends
<1>b. \A m \in DOMAIN line', n \in DOMAIN line' :
        m \notin DOMAIN line /\ n \notin DOMAIN line => m = n
  BY <1>0, <1>1
<1>2. /\ pc' \in [Callers -> ImportPcs] /\ pc[o] = "mark" /\ pc'[o] = "connect"
      /\ \A q \in Callers : q # o => pc'[q] = pc[q]
      /\ Settled(o)
  BY <1>0 DEF Connect, GoTo, TypeOK, ImportPcs
<1>3. TypeOK'
  BY <1>0, <1>1, <1>2 DEF Connect, TypeOK, PoolTypeOK, CopyTypeOK, copyVars
<1>c. /\ \A m \in DOMAIN line : line[m] # Use(o, "copy")
      /\ \A c \in Connections : user[c] # Use(o, "copy")
  BY <1>0, <1>2 DEF Inv, CopyAsked, CopyHeld
<1>4. CopyOwners'
  BY <1>0, <1>1 DEF Inv, CopyOwners
<1>5. CopyHeld'
  BY <1>0, <1>1, <1>2, ImportsCall DEF Inv, CopyHeld
<1>6. CopyAsked'
  <2> SUFFICES ASSUME NEW i \in Imports, NEW m \in DOMAIN line', line'[m] = Use(i, "copy")
               PROVE  /\ pc'[i] = "connect"
                      /\ \A k \in DOMAIN line' : line'[k] = Use(i, "copy") => k = m
                      /\ \A c \in Connections : user'[c] # Use(i, "copy")
    BY DEF CopyAsked
  <2>1. CASE i = o
    BY <2>1, <1>1, <1>b, <1>c, <1>2
  <2>2. CASE i # o
    BY <2>2, <1>0, <1>1, <1>2, ImportsCall DEF Inv, CopyAsked
  <2> QED BY <2>1, <2>2
<1>7. FlowFits'
  BY <1>0, <1>2, ImportsCall DEF Inv, FlowFits, Connect, copyVars
<1>8. StatementFits'
  BY <1>0, <1>1, <1>2, ImportsCall DEF Inv, StatementFits, Settled, Holds
<1> QED BY <1>3, <1>4, <1>5, <1>6, <1>7, <1>8 DEF IInv, Inv

(* An import goes on without the pool.                                     *)
LEMMA MoveKeeps ==
  ASSUME IInv, NEW i \in Imports, NEW at \in ImportPcs,
         GoTo(i, at), UNCHANGED poolVars, CopyTypeOK',
         \A q \in Imports : q # i => flow'[q] = flow[q],
         flow'[i] # "closed" => at = "copy",
         steps' \in [Imports -> 0..MaxSteps],
         at \notin {"idle", "mark"},
         pc[i] # "connect" \/ Holds(Use(i, "copy")) # {},
         pc[i] \in Waiting => at \in Waiting \/ Settled(i)
  PROVE  IInv'
<1>0. TypeOK /\ Inv
  BY DEF IInv
<1>1. /\ pc' \in [Callers -> ImportPcs] /\ pc'[i] = at
      /\ \A q \in Callers : q # i => pc'[q] = pc[q]
  BY <1>0, ImportsCall DEF GoTo, TypeOK
<1>2. user' = user /\ line' = line
  BY DEF poolVars
<1>3. TypeOK'
  BY <1>0, <1>1, <1>2 DEF TypeOK, PoolTypeOK
<1>4. CopyOwners' /\ CopyHeld'
  BY <1>0, <1>1, <1>2, ImportsCall DEF Inv, CopyHeld, CopyOwners
<1>5. CopyAsked'
  BY <1>0, <1>1, <1>2, ImportsCall DEF Inv, CopyAsked, Holds
<1>6. FlowFits'
  BY <1>0, <1>1, ImportsCall DEF Inv, FlowFits
<1>7. StatementFits'
  BY <1>0, <1>1, <1>2, ImportsCall DEF Inv, StatementFits, Settled, Holds
<1> QED BY <1>3, <1>4, <1>5, <1>6, <1>7 DEF IInv, Inv

(* A statement ends and its connection is free.                            *)
LEMMA ReleaseKeeps ==
  ASSUME IInv, NEW c \in Connections, Release(c), UNCHANGED <<copyVars, runVars>>
  PROVE  IInv'
<1>0. TypeOK /\ Inv
  BY DEF IInv
<1>1. /\ user' \in [Connections -> Uses \cup {Free}] /\ user'[c] = Free
      /\ \A d \in Connections : d # c => user'[d] = user[d]
      /\ line' = line /\ pc' = pc /\ flow' = flow /\ left' = left /\ steps' = steps
  BY <1>0 DEF Release, TypeOK, PoolTypeOK, copyVars, runVars
<1>2. \A d \in Connections : \A q, w : w # "free" /\ user'[d] = Use(q, w) => user[d] = Use(q, w)
  BY <1>1, UseTyped
<1>3. TypeOK'
  BY <1>0, <1>1 DEF TypeOK, PoolTypeOK, CopyTypeOK
<1>4. Inv'
  BY <1>0, <1>1, <1>2
     DEF Inv, CopyOwners, CopyHeld, CopyAsked, FlowFits, StatementFits, Settled, Holds
<1> QED BY <1>3, <1>4 DEF IInv

(* The finally block.                                                      *)
LEMMA FinallyKeeps == ASSUME IInv, NEW i \in Imports, Finally(i) PROVE IInv'
<1> USE UseInjective
<1>0. TypeOK /\ Inv /\ i \in Callers
  BY ImportsCall DEF IInv
<1>a. PICK c \in Connections : user[c] = Use(i, "copy") /\ Release(c)
  BY DEF Finally, Holds
<1>1. /\ user' \in [Connections -> Uses \cup {Free}] /\ user'[c] = Free
      /\ \A d \in Connections : d # c => user'[d] = user[d]
      /\ line' = line /\ flow' = flow /\ left' = left /\ steps' = steps
  BY <1>0, <1>a DEF Finally, Release, TypeOK, PoolTypeOK, copyVars
<1>2. \A d \in Connections : \A q, w : w # "free" /\ user'[d] = Use(q, w) => user[d] = Use(q, w)
  BY <1>1, UseTyped
<1>3. /\ pc' \in [Callers -> ImportPcs] /\ pc[i] = "finally" /\ pc'[i] = "idle"
      /\ \A q \in Callers : q # i => pc'[q] = pc[q]
  BY <1>0 DEF Finally, GoTo, TypeOK, ImportPcs
<1>4. TypeOK'
  BY <1>0, <1>1, <1>3 DEF TypeOK, PoolTypeOK, CopyTypeOK
<1>5. CopyOwners'
  BY <1>0, <1>1, <1>2 DEF Inv, CopyOwners
<1>6. CopyHeld'
  <2>1. \A d \in Connections : user'[d] # Use(i, "copy")
    BY <1>0, <1>1, <1>2, <1>a, UseTyped DEF Inv, CopyHeld
  <2> QED BY <2>1, <1>0, <1>2, <1>3, ImportsCall DEF Inv, CopyHeld
<1>7. CopyAsked'
  BY <1>0, <1>1, <1>2, <1>3, ImportsCall DEF Inv, CopyAsked
<1>8. FlowFits'
  BY <1>0, <1>1, <1>3, ImportsCall DEF Inv, FlowFits
<1>9. StatementFits'
  BY <1>0, <1>1, <1>2, <1>3, ImportsCall DEF Inv, StatementFits, Settled, Holds, Waiting
<1> QED BY <1>4, <1>5, <1>6, <1>7, <1>8, <1>9 DEF IInv, Inv

(* An await of "o" rejects: its other statements become strays, and at     *)
(* most the first of the line has gone.                                    *)
LEMMA RejectKeeps ==
  ASSUME IInv, NEW o \in Callers, Rejected(o), UNCHANGED <<copyVars, steps>>,
         user' \in [Connections -> Uses \cup {Free}],
         \A c \in Connections : user'[c] = Free \/ user'[c] = Abandon(user[c], o),
         line' \in Seq(Uses), NEW s \in Nat,
         \A m \in DOMAIN line' : m + s \in DOMAIN line /\ line'[m] = Abandon(line[m + s], o),
         o \in Imports =>
           \/ pc[o] \in Waiting
           \/ /\ pc[o] = "connect"
              /\ \A c \in Connections : user[c] # Use(o, "copy")
              /\ \A m \in DOMAIN line' : line'[m] # Use(o, "copy")
  PROVE  IInv'
<1> USE UseInjective
<1>0. TypeOK /\ Inv /\ line \in Seq(Uses) /\ user \in [Connections -> Uses \cup {Free}]
  BY DEF IInv, TypeOK, PoolTypeOK
<1>1. \A c \in Connections :
        /\ \A q : user'[c] = Use(q, "copy") => user[c] = Use(q, "copy")
        /\ \A q : user'[c] = Use(q, "statement") => user[c] = Use(q, "statement")
        /\ user'[c] # Use(o, "statement")
  <2> TAKE c \in Connections
  <2>1. user[c] \in Uses \cup {Free}
    BY <1>0
  <2>2. CASE user'[c] = Free
    BY <2>2, UseTyped
  <2>3. CASE user'[c] = Abandon(user[c], o)
    <3> DEFINE u == user[c]
    <3>1. u \in Uses \cup {Free}
      BY <2>1
    <3> HIDE DEF u
    <3>2. /\ Abandon(u, o) # Use(o, "statement")
          /\ \A q : Abandon(u, o) = Use(q, "copy") => u = Use(q, "copy")
          /\ \A q : Abandon(u, o) = Use(q, "statement") => u = Use(q, "statement")
      BY <3>1, AbandonKeeps
    <3> QED BY <2>3, <3>2 DEF u
  <2> QED BY <2>2, <2>3
<1>a. \A m \in DOMAIN line' : line[m + s] \in Uses
  BY <1>0
<1>2. \A m \in DOMAIN line' :
        /\ \A q : line'[m] = Use(q, "copy") => line[m + s] = Use(q, "copy")
        /\ \A q : line'[m] = Use(q, "statement") => line[m + s] = Use(q, "statement")
        /\ line'[m] # Use(o, "statement")
  BY <1>a, AbandonKeeps
<1>b. \A m \in DOMAIN line', n \in DOMAIN line' : m + s = n + s => m = n
  OBVIOUS
<1>3. /\ pc' \in [Callers -> ImportPcs]
      /\ \A q \in Callers : q # o => pc'[q] = pc[q]
  BY <1>0 DEF Rejected, GoTo, TypeOK, ImportPcs
<1>4. o \in Imports =>
        pc'[o] = CASE pc[o] = "work" -> "throw" [] pc[o] = "catch" -> "finally" [] OTHER -> "idle"
  BY <1>0 DEF Rejected, GoTo, TypeOK
<1>5. TypeOK'
  BY <1>0, <1>3 DEF TypeOK, PoolTypeOK, CopyTypeOK, copyVars
<1>6. CopyOwners'
  BY <1>0, <1>1, <1>2 DEF Inv, CopyOwners
<1>7. CopyHeld'
  <2> SUFFICES ASSUME NEW i \in Imports, NEW c \in Connections, user'[c] = Use(i, "copy")
               PROVE  /\ pc'[i] \notin {"idle", "mark"}
                      /\ \A d \in Connections : user'[d] = Use(i, "copy") => d = c
    BY DEF CopyHeld
  <2>1. /\ user[c] = Use(i, "copy") /\ pc[i] \notin {"idle", "mark"}
        /\ \A d \in Connections : user[d] = Use(i, "copy") => d = c
    BY <1>0, <1>1 DEF Inv, CopyHeld
  <2>2. pc'[i] \notin {"idle", "mark"}
    BY <2>1, <1>3, <1>4, ImportsCall DEF Waiting
  <2> QED BY <2>1, <2>2, <1>1
<1>8. CopyAsked'
  <2> SUFFICES ASSUME NEW i \in Imports, NEW m \in DOMAIN line', line'[m] = Use(i, "copy")
               PROVE  /\ pc'[i] = "connect"
                      /\ \A k \in DOMAIN line' : line'[k] = Use(i, "copy") => k = m
                      /\ \A c \in Connections : user'[c] # Use(i, "copy")
    BY DEF CopyAsked
  <2>1. /\ pc[i] = "connect"
        /\ \A k \in DOMAIN line : line[k] = Use(i, "copy") => k = m + s
        /\ \A c \in Connections : user[c] # Use(i, "copy")
    BY <1>0, <1>2 DEF Inv, CopyAsked
  <2>2. i # o
    BY <2>1 DEF Waiting
  <2> QED BY <2>1, <2>2, <1>1, <1>2, <1>3, <1>b, ImportsCall
<1>9. FlowFits'
  <2>1. flow' = flow
    BY DEF copyVars
  <2> QED BY <2>1, <1>0, <1>3, ImportsCall DEF Inv, FlowFits, Waiting
<1>10. StatementFits'
  <2> SUFFICES ASSUME NEW i \in Imports, pc'[i] \notin Waiting
               PROVE  Settled(i)'
    BY DEF StatementFits
  <2>1. CASE i = o
    BY <2>1, <1>1, <1>2 DEF Settled, Holds
  <2>2. CASE i # o
    BY <2>2, <1>0, <1>1, <1>2, <1>3, ImportsCall DEF Inv, StatementFits, Settled, Holds
  <2> QED BY <2>1, <2>2
<1> QED BY <1>5, <1>6, <1>7, <1>8, <1>9, <1>10 DEF IInv, Inv

LEMMA StatementFailsKeeps == ASSUME IInv, NEW o \in Callers, StatementFails(o) PROVE IInv'
<1>0. TypeOK /\ Inv /\ line \in Seq(Uses) /\ user \in [Connections -> Uses \cup {Free}]
  BY DEF IInv, TypeOK, PoolTypeOK
<1>1. PICK c \in Connections :
        /\ user[c] = Use(o, "statement")
        /\ user' = [d \in Connections |-> IF d = c THEN Free ELSE Abandon(user[d], o)]
  BY DEF StatementFails, Holds
<1>2. user' \in [Connections -> Uses \cup {Free}]
  BY <1>0, <1>1, AbandonKeeps
<1>3. \A d \in Connections : user'[d] = Free \/ user'[d] = Abandon(user[d], o)
  BY <1>1
<1>4. line' = [m \in DOMAIN line |-> Abandon(line[m], o)]
  BY DEF StatementFails
<1>a. \A m \in DOMAIN line : Abandon(line[m], o) \in Uses
  BY <1>0, AbandonKeeps
<1>5. line' \in Seq(Uses)
  BY <1>0, <1>4, <1>a
<1>6. \A m \in DOMAIN line' : m + 0 \in DOMAIN line /\ line'[m] = Abandon(line[m + 0], o)
  BY <1>0, <1>4
<1>7. o \in Imports => pc[o] \in Waiting
  BY <1>0, <1>1 DEF Inv, StatementFits, Settled, Holds
<1>8. Rejected(o) /\ UNCHANGED <<copyVars, steps>> /\ 0 \in Nat
  BY DEF StatementFails
<1> HIDE DEF Rejected
<1> QED BY <1>2, <1>3, <1>5, <1>6, <1>7, <1>8, RejectKeeps

LEMMA RefuseKeeps == ASSUME IInv, NEW o \in Callers, Refuse(o) PROVE IInv'
<1> USE UseInjective
<1>0. TypeOK /\ Inv /\ line \in Seq(Uses) /\ user \in [Connections -> Uses \cup {Free}]
  BY DEF IInv, TypeOK, PoolTypeOK
<1>1. /\ user' = [c \in Connections |-> Abandon(user[c], o)]
      /\ line' = [m \in DOMAIN Tail(line) |-> Abandon(Tail(line)[m], o)]
      /\ line # <<>> /\ Head(line) \in {Use(o, "copy"), Use(o, "statement")}
      /\ Rejected(o) /\ UNCHANGED <<copyVars, steps>> /\ 1 \in Nat
  BY DEF Refuse
<1>2. /\ Tail(line) \in Seq(Uses)
      /\ Head(line) = line[1] /\ 1 \in DOMAIN line
      /\ \A m \in DOMAIN Tail(line) :
           m + 1 \in DOMAIN line /\ Tail(line)[m] = line[m + 1] /\ m + 1 # 1
  BY <1>0, <1>1, TailShifts
<1>3. user' \in [Connections -> Uses \cup {Free}]
  BY <1>0, <1>1, AbandonKeeps
<1>4. \A c \in Connections : user'[c] = Free \/ user'[c] = Abandon(user[c], o)
  BY <1>1
<1>a. \A m \in DOMAIN Tail(line) : Tail(line)[m] \in Uses /\ Abandon(Tail(line)[m], o) \in Uses
  BY <1>2, AbandonKeeps
<1>5. line' \in Seq(Uses)
  BY <1>1, <1>2, <1>a
<1>6. \A m \in DOMAIN line' : m + 1 \in DOMAIN line /\ line'[m] = Abandon(line[m + 1], o)
  BY <1>1, <1>2
<1>7. ASSUME o \in Imports
      PROVE  \/ pc[o] \in Waiting
             \/ /\ pc[o] = "connect"
                /\ \A c \in Connections : user[c] # Use(o, "copy")
                /\ \A m \in DOMAIN line' : line'[m] # Use(o, "copy")
  <2>1. CASE line[1] = Use(o, "statement")
    BY <2>1, <1>0, <1>2, <1>7 DEF Inv, StatementFits, Settled
  <2>2. CASE line[1] = Use(o, "copy")
    <3>1. /\ pc[o] = "connect"
          /\ \A n \in DOMAIN line : line[n] = Use(o, "copy") => n = 1
          /\ \A c \in Connections : user[c] # Use(o, "copy")
      BY <2>2, <1>0, <1>2, <1>7 DEF Inv, CopyAsked
    <3>2. \A m \in DOMAIN line' : line'[m] # Use(o, "copy")
      BY <3>1, <1>1, <1>2, <1>a, AbandonKeeps
    <3> QED BY <3>1, <3>2
  <2> QED BY <2>1, <2>2, <1>1, <1>2
<1> HIDE DEF Rejected
<1> QED BY <1>1, <1>3, <1>4, <1>5, <1>6, <1>7, RejectKeeps

(* The pool serves the first in line.                                      *)
LEMMA ServeKeeps == ASSUME IInv, Serve PROVE IInv'
<1> USE UseInjective
<1>0. TypeOK /\ Inv /\ line \in Seq(Uses) /\ user \in [Connections -> Uses \cup {Free}]
  BY DEF IInv, TypeOK, PoolTypeOK
<1>1. PICK c \in Connections : Grant(c) /\ UNCHANGED <<copyVars, runVars>>
  BY DEF Serve
<1>2. /\ Tail(line) \in Seq(Uses)
      /\ Head(line) = line[1] /\ 1 \in DOMAIN line /\ line[1] \in Uses
      /\ \A m \in DOMAIN Tail(line) :
           m + 1 \in DOMAIN line /\ Tail(line)[m] = line[m + 1] /\ m + 1 # 1
      /\ \A m \in DOMAIN Tail(line), n \in DOMAIN Tail(line) : m + 1 = n + 1 => m = n
  BY <1>0, <1>1, TailShifts DEF Grant
<1>3. /\ user' \in [Connections -> Uses \cup {Free}]
      /\ user[c] = Free /\ user'[c] = line[1]
      /\ \A d \in Connections : d # c => user'[d] = user[d]
      /\ line' = Tail(line) /\ pc' = pc /\ flow' = flow /\ left' = left /\ steps' = steps
  BY <1>0, <1>1, <1>2 DEF Grant, FreeConnections, copyVars, runVars
<1>4. TypeOK'
  BY <1>0, <1>2, <1>3 DEF TypeOK, PoolTypeOK, CopyTypeOK
<1>5. CopyOwners'
  BY <1>0, <1>2, <1>3 DEF Inv, CopyOwners
<1>6. CopyHeld'
  BY <1>0, <1>2, <1>3, UseTyped DEF Inv, CopyHeld, CopyAsked
<1>7. CopyAsked'
  <2> SUFFICES ASSUME NEW i \in Imports, NEW m \in DOMAIN line', line'[m] = Use(i, "copy")
               PROVE  /\ pc'[i] = "connect"
                      /\ \A k \in DOMAIN line' : line'[k] = Use(i, "copy") => k = m
                      /\ \A d \in Connections : user'[d] # Use(i, "copy")
    BY DEF CopyAsked
  <2>1. /\ pc[i] = "connect"
        /\ \A k \in DOMAIN line : line[k] = Use(i, "copy") => k = m + 1
        /\ \A d \in Connections : user[d] # Use(i, "copy")
    BY <1>0, <1>2, <1>3 DEF Inv, CopyAsked
  <2>2. line[1] # Use(i, "copy")
    BY <2>1, <1>2, <1>3
  <2> QED BY <2>1, <2>2, <1>2, <1>3
<1>8. FlowFits' /\ StatementFits'
  BY <1>0, <1>2, <1>3 DEF Inv, FlowFits, StatementFits, Settled, Holds
<1> QED BY <1>4, <1>5, <1>6, <1>7, <1>8 DEF IInv, Inv

(* The process dies, or one of the others goes on.                         *)
LEMMA DieKeeps == ASSUME IInv, Die PROVE IInv'
<1>1. /\ line' = <<>> /\ \A c \in Connections : user'[c] = Free
      /\ \A i \in Imports : flow'[i] = "closed"
  BY DEF Die
<1>2. TypeOK'
  BY CopyAssumption DEF Die, IInv, TypeOK, PoolTypeOK, CopyTypeOK, ImportPcs
<1>3. Inv'
  BY <1>1, UseTyped
     DEF Inv, CopyOwners, CopyHeld, CopyAsked, FlowFits, StatementFits, Settled, Holds
<1> QED BY <1>2, <1>3 DEF IInv

LEMMA AnsweredKeeps == ASSUME IInv, NEW o \in Others, Answered(o) PROVE IInv'
<1>0. TypeOK /\ Inv /\ o \in Callers /\ o \notin Imports
  BY WorkerAssumption DEF IInv
<1>1. /\ user' = user /\ line' = line /\ flow' = flow /\ left' = left /\ steps' = steps
      /\ pc' \in [Callers -> ImportPcs]
      /\ \A i \in Imports : pc'[i] = pc[i]
  BY <1>0, ImportsCall DEF Answered, GoTo, poolVars, copyVars, TypeOK, ImportPcs
<1>2. TypeOK'
  BY <1>0, <1>1 DEF TypeOK, PoolTypeOK, CopyTypeOK
<1>3. Inv'
  BY <1>0, <1>1
     DEF Inv, CopyOwners, CopyHeld, CopyAsked, FlowFits, StatementFits, Settled, Holds
<1> QED BY <1>2, <1>3 DEF IInv

(* The steps of an import.                                                 *)
LEMMA BeginKeeps == ASSUME IInv, NEW i \in Imports, Begin(i) PROVE IInv'
<1>1. /\ i \in Callers /\ "mark" \in Waiting /\ 1 \in Nat /\ pc[i] = "idle"
      /\ Send(i, 1) /\ GoTo(i, "mark") /\ UNCHANGED copyVars
  BY ImportsCall DEF Begin, Waiting
<1>2. steps' \in [Imports -> 0..MaxSteps]
  BY WorkerAssumption DEF Begin, IInv, TypeOK
<1> QED BY <1>1, <1>2, SendKeeps

LEMMA WorkKeeps == ASSUME IInv, NEW i \in Imports, Work(i) PROVE IInv'
<1>0. TypeOK /\ Inv /\ i \in Callers
  BY ImportsCall DEF IInv
<1>1. steps' \in [Imports -> 0..MaxSteps]
  BY <1>0, WorkerAssumption DEF Work, TypeOK
<1>2. \/ pc[i] = "connect" /\ Holds(Use(i, "copy")) # {}
      \/ pc[i] = "work" /\ Settled(i)
  BY DEF Work, Ready
<1>3. CASE GoTo(i, "work") /\ (\E n \in {1, 2} : Send(i, n)) /\ UNCHANGED copyVars
  <2>1. PICK n \in {1, 2} : Send(i, n)
    BY <1>3
  <2>2. "work" \in Waiting /\ n \in Nat
    BY DEF Waiting
  <2> QED BY <1>0, <1>1, <1>2, <1>3, <2>1, <2>2, SendKeeps
<1>4. CASE GoTo(i, "copy") /\ openCopyStream(i) /\ UNCHANGED poolVars
  <2>1. CopyTypeOK' /\ \A q \in Imports : q # i => flow'[q] = flow[q]
    BY <1>0, <1>4, CopyAssumption DEF openCopyStream, TypeOK, CopyTypeOK
  <2>2. "copy" \in ImportPcs
    BY DEF ImportPcs
  <2> QED BY <1>1, <1>2, <1>4, <2>1, <2>2, MoveKeeps DEF Waiting
<1> QED BY <1>3, <1>4 DEF Work

LEMMA CopyKeeps == ASSUME IInv, NEW i \in Imports, Copying(i) \/ CopyEnds(i) PROVE IInv'
<1>0. TypeOK /\ Inv /\ i \in Callers
  BY ImportsCall DEF IInv
<1>1. /\ flow[i] # "closed" /\ pc[i] = "copy"
      /\ CopyTypeOK' /\ (\A q \in Imports : q # i => flow'[q] = flow[q])
      /\ UNCHANGED poolVars /\ steps' \in [Imports -> 0..MaxSteps]
  <2>1. flow[i] # "closed"
    BY DEF Copying, CopyWrites, CopyEnds, writeRow, drain, finish, CopySettles
  <2>2. CopyTypeOK' /\ \A q \in Imports : q # i => flow'[q] = flow[q]
    <3>1. CopyTypeOK /\ MaxRows \in Nat
      BY <1>0, CopyAssumption DEF TypeOK
    <3>2. CASE writeRow(i)
      BY <3>1, <3>2 DEF writeRow, CopyTypeOK
    <3>3. CASE drain(i) \/ finish(i) \/ CopySettles(i)
      BY <3>1, <3>3 DEF drain, finish, CopySettles, CopyTypeOK
    <3> QED BY <3>2, <3>3 DEF Copying, CopyWrites, CopyEnds
  <2> QED BY <1>0, <2>1, <2>2 DEF Inv, FlowFits, Copying, CopyEnds, runVars, TypeOK
<1>2. CASE Copying(i)
  <2>1. GoTo(i, "copy") /\ "copy" \in ImportPcs
    BY <1>0, <1>1, <1>2 DEF Copying, runVars, GoTo, TypeOK, ImportPcs
  <2> QED BY <1>1, <2>1, MoveKeeps DEF Waiting
<1>3. CASE CopyEnds(i)
  <2>1. flow'[i] = "closed"
    BY <1>0, <1>3 DEF CopyEnds, CopySettles, TypeOK, CopyTypeOK
  <2>2. PICK at \in {"work", "throw"} : GoTo(i, at)
    BY <1>3 DEF CopyEnds
  <2>3. at \in ImportPcs /\ at \notin {"idle", "mark"}
    BY DEF ImportPcs
  <2> QED BY <1>1, <2>1, <2>2, <2>3, MoveKeeps DEF Waiting
<1> QED BY <1>2, <1>3

LEMMA CatchKeeps == ASSUME IInv, NEW i \in Imports, Catch(i) PROVE IInv'
<1>1. /\ i \in Callers /\ "catch" \in Waiting /\ 1 \in Nat /\ pc[i] = "throw"
      /\ Send(i, 1) /\ GoTo(i, "catch") /\ UNCHANGED copyVars
      /\ steps' \in [Imports -> 0..MaxSteps]
  BY ImportsCall DEF Catch, Waiting, IInv, TypeOK
<1> QED BY <1>1, SendKeeps

LEMMA LeaveKeeps == ASSUME IInv, NEW i \in Imports, Leave(i) PROVE IInv'
<1>0. TypeOK /\ Inv /\ i \in Callers
  BY ImportsCall DEF IInv
<1>1. /\ pc[i] \in {"work", "catch"} /\ Settled(i) /\ GoTo(i, "finally")
      /\ UNCHANGED <<poolVars, copyVars, steps>> /\ "finally" \in ImportPcs
  BY DEF Leave, ImportPcs
<1>2. flow[i] = "closed"
  BY <1>0, <1>1 DEF Inv, FlowFits
<1> QED BY <1>0, <1>1, <1>2, MoveKeeps DEF TypeOK, CopyTypeOK, copyVars

LEMMA QueryKeeps == ASSUME IInv, NEW o \in Others, Query(o) PROVE IInv'
<1>1. /\ o \in Callers /\ o \notin Imports /\ "work" \in Waiting /\ Width[o] \in Nat
      /\ pc[o] = "idle" /\ Send(o, Width[o]) /\ GoTo(o, "work") /\ UNCHANGED copyVars
      /\ steps' \in [Imports -> 0..MaxSteps]
  BY WorkerAssumption DEF Query, Waiting, IInv, TypeOK
<1> QED BY <1>1, SendKeeps

LEMMA StepIInv == IInv /\ [Next]_vars => IInv'
<1> SUFFICES ASSUME IInv, [Next]_vars PROVE IInv'
  OBVIOUS
<1>1. ASSUME NEW i \in Imports, Begin(i) \/ ImportStep(i) PROVE IInv'
  BY <1>1, BeginKeeps, ConnectKeeps, WorkKeeps, CopyKeeps, CatchKeeps, LeaveKeeps, FinallyKeeps
     DEF ImportStep
<1>2. ASSUME NEW o \in Others, Query(o) \/ Answered(o) PROVE IInv'
  BY <1>2, QueryKeeps, AnsweredKeeps
<1>3. ASSUME NEW o \in Callers, StatementEnds(o) \/ StrayEnds(o) PROVE IInv'
  BY <1>3, ReleaseKeeps DEF StatementEnds, StrayEnds, Holds
<1>4. ASSUME NEW o \in Callers, StatementFails(o) \/ Refuse(o) PROVE IInv'
  BY <1>4, StatementFailsKeeps, RefuseKeeps
<1>5. ASSUME UNCHANGED vars PROVE IInv'
  <2>1. UNCHANGED <<user, line, flow, left, pc, steps>>
    BY <1>5 DEF vars, poolVars, copyVars
  <2> QED BY <2>1 DEF IInv, Inv, TypeOK, PoolTypeOK, CopyTypeOK, CopyOwners, CopyHeld,
      CopyAsked, FlowFits, StatementFits, Settled, Holds
<1> QED BY <1>1, <1>2, <1>3, <1>4, <1>5, ServeKeeps, DieKeeps DEF Next

LEMMA AlwaysIInv == Spec => []IInv
<1> QED BY InitIInv, StepIInv, PTL DEF Spec

-----------------------------------------------------------------------------
(* Types: the callers, their places in the code and the pool's line stay   *)
(* within what the code knows.                                             *)
THEOREM Typing == Spec => []TypeOK
<1>1. IInv => TypeOK
  BY DEF IInv
<1> QED BY <1>1, AlwaysIInv, PTL

(* An import has at most one connection for itself, and none once it is    *)
(* over, whichever way it left the try block.                              *)
THEOREM KeepsOneConnection == Spec => []OneConnectionKept
<1>1. ASSUME IInv, NEW i \in Imports PROVE Cardinality(Holds(Use(i, "copy"))) <= 1
  <2>1. CASE Holds(Use(i, "copy")) = {}
    BY <2>1, FS_EmptySet
  <2>2. CASE \E c \in Connections : user[c] = Use(i, "copy")
    <3>1. PICK c \in Connections : user[c] = Use(i, "copy")
      BY <2>2
    <3>2. Holds(Use(i, "copy")) = {c}
      BY <1>1, <3>1 DEF IInv, Inv, CopyHeld, Holds
    <3> QED BY <3>2, FS_Singleton
  <2> QED BY <2>1, <2>2 DEF Holds
<1>2. IInv => OneConnectionKept
  BY <1>1 DEF OneConnectionKept, IInv, Inv, CopyHeld, Holds
<1> QED BY <1>2, AlwaysIInv, PTL

(* As long as a worker runs fewer imports than its pool has connections,   *)
(* those who wait for a connection never wait for each other only.         *)
THEOREM NobodyWaitsForEver == Spec => []LineMoves
<1>1. ASSUME IInv PROVE \E c \in Connections : user[c][2] # "copy"
  <2> SUFFICES ASSUME \A c \in Connections : user[c][2] = "copy" PROVE FALSE
    OBVIOUS
  <2>1. \A c \in Connections : \E i \in Imports : user[c] = Use(i, "copy")
    <3> SUFFICES ASSUME NEW c \in Connections PROVE \E i \in Imports : user[c] = Use(i, "copy")
      OBVIOUS
    <3>1. user[c] \in Uses \cup {Free} /\ user[c][2] = "copy" /\ Free[2] # "copy"
      BY <1>1, UseInjective DEF IInv, TypeOK, PoolTypeOK, Free
    <3>2. PICK o \in Callers, w \in {"copy", "statement", "stray"} : user[c] = Use(o, w)
      BY <3>1, UseForms
    <3>3. user[c] = Use(o, "copy")
      BY <3>1, <3>2, UseInjective
    <3> QED BY <1>1, <3>3 DEF IInv, Inv, CopyOwners
  <2> DEFINE f == [c \in Connections |-> CHOOSE i \in Imports : user[c] = Use(i, "copy")]
  <2>2. \A c \in Connections : f[c] \in Imports /\ user[c] = Use(f[c], "copy")
    BY <2>1
  <2>3. f \in [Connections -> Imports]
    BY <2>2
  <2> HIDE DEF f
  <2>4. PICK c \in Connections, d \in Connections : c # d /\ f[c] = f[d]
    BY <2>3, EnoughConnections, FS_PigeonHole
  <2>5. user[c] = Use(f[c], "copy") /\ user[d] = Use(f[c], "copy") /\ f[c] \in Imports
    BY <2>2, <2>4
  <2> QED BY <1>1, <2>4, <2>5 DEF IInv, Inv, CopyHeld
<1>2. IInv => LineMoves
  BY <1>1 DEF LineMoves
<1> QED BY <1>2, AlwaysIInv, PTL
=============================================================================
