------------------------------ MODULE RpcProofs ------------------------------
(***************************************************************************)
(* The index of Ethereum transactions has no gaps, and no subscription is  *)
(* notified twice, for chains, connections and events of any number.       *)
(***************************************************************************)
EXTENDS Indexer, Websockets, TLAPS

----------------------------------------------------------------------------
\* The index of transactions.

\* Every block from a to b is indexed, unless the service failed to write it.
Covered(a, b) == \A h \in a .. b : h \notin missed => IndexBlock(h) \subseteq db

\* The first and the last block that the database knows.
Spans(f, l) ==
  /\ (\E e \in db : e[1] = f) /\ (\E e \in db : e[1] = l)
  /\ \A e \in db : f <= e[1] /\ e[1] <= l

IndexTypeOK ==
  /\ blocks \in Seq(Blocks)
  /\ \A e \in db : e[1] \in 1 .. Height
  /\ mode \in {"down", "up", "status", "subscribed", "loop", "scan", "backward", "forward"}
  /\ latestBlock \in 0 .. Height /\ lastBlock \in Nat /\ i \in Int
  /\ headers \in Seq(Nat) /\ \A k \in DOMAIN headers : headers[k] <= Height

\* How far the service and the commands have come.
Progress ==
  /\ mode = "scan" => i = lastBlock + 1
  /\ Serving => lastBlock <= Height
  /\ db # {} =>
       /\ Spans(LoadFirstBlock, LoadLastBlock)
       /\ Covered(LoadFirstBlock, LoadLastBlock)
       /\ Serving => LoadLastBlock <= lastBlock /\ Covered(LoadFirstBlock, lastBlock)
       /\ mode = "forward" => LoadLastBlock < i /\ Covered(LoadFirstBlock, i - 1)
       /\ mode = "backward" => i < LoadFirstBlock /\ Covered(i + 1, LoadLastBlock)

IndexInv == IndexTypeOK /\ Progress

\* An entry names its block.
LEMMA EntriesOfBlock == \A h : \A e \in IndexBlock(h) : e[1] = h
BY DEF IndexBlock

\* What Min and Max choose.
LEMMA LeastAndGreatest ==
  ASSUME NEW D, D \subseteq Int, NEW f \in D, NEW l \in D, \A x \in D : f <= x /\ x <= l
  PROVE  Min(D) = f /\ Max(D) = l
<1>1. Min(D) \in D /\ \A x \in D : Min(D) <= x
  BY Zenon DEF Min
<1>2. Max(D) \in D /\ \A x \in D : Max(D) >= x
  BY Zenon DEF Max
<1>3. Min(D) \in Int /\ f \in Int /\ Max(D) \in Int /\ l \in Int
  BY <1>1, <1>2, Zenon
<1>4. Min(D) <= f /\ f <= Min(D) /\ Max(D) >= l /\ l >= Max(D)
  BY <1>1, <1>2, Zenon
<1> QED
  BY <1>3, <1>4

\* The indexed blocks are blocks of the chain.
LEMMA IndexBounds ==
  ASSUME IndexInv
  PROVE  /\ Height \in Nat
         /\ db # {} => LoadFirstBlock \in 1 .. Height /\ LoadLastBlock \in LoadFirstBlock .. Height
         /\ db = {} => LoadFirstBlock = -1 /\ LoadLastBlock = -1
<1>1. Height \in Nat
  BY DEF IndexInv, IndexTypeOK, Height
<1>2. db # {} => LoadFirstBlock \in 1 .. Height /\ LoadLastBlock \in LoadFirstBlock .. Height
  BY DEF IndexInv, IndexTypeOK, Progress, Spans
<1>3. db = {} => LoadFirstBlock = -1 /\ LoadLastBlock = -1
  BY DEF LoadFirstBlock, LoadLastBlock
<1> QED
  BY <1>1, <1>2, <1>3

\* Steps that leave the chain and the database alone leave the index alone.
LEMMA SameIndex ==
  ASSUME UNCHANGED <<blocks, db>>
  PROVE  /\ LoadFirstBlock' = LoadFirstBlock /\ LoadLastBlock' = LoadLastBlock
         /\ Height' = Height /\ \A h : IndexBlock(h)' = IndexBlock(h)
BY DEF LoadFirstBlock, LoadLastBlock, Height, IndexBlock, EthIndex

\* Writing a block that has Ethereum transactions.
LEMMA IndexGrows ==
  ASSUME IndexInv, NEW h \in 1 .. Height, db' = db \cup IndexBlock(h), IndexBlock(h) # {},
         NEW f, NEW l,
         f = (IF db = {} \/ h < LoadFirstBlock THEN h ELSE LoadFirstBlock),
         l = (IF db = {} \/ h > LoadLastBlock THEN h ELSE LoadLastBlock)
  PROVE  db' # {} /\ LoadFirstBlock' = f /\ LoadLastBlock' = l /\ Spans(f, l)'
<1>1. /\ \A e \in db : e[1] \in 1 .. Height
      /\ db # {} => Spans(LoadFirstBlock, LoadLastBlock)
  BY DEF IndexInv, IndexTypeOK, Progress
<1>2. /\ \A e \in db' : e[1] = h \/ e \in db
      /\ \E e \in db' : e[1] = h
      /\ Height \in Nat
  BY EntriesOfBlock DEF IndexInv, IndexTypeOK, Height
<1>3. db # {} => LoadFirstBlock \in Int /\ LoadLastBlock \in Int
  BY <1>1 DEF Spans
<1>4. Spans(f, l)'
  BY <1>1, <1>2, <1>3 DEF Spans
<1>5. \A e \in db' : e[1] \in Int
  BY <1>1, <1>2
<1>6. LoadFirstBlock' = f /\ LoadLastBlock' = l
  <2> DEFINE D == {e[1] : e \in db'}
  <2>1. D \subseteq Int /\ f \in D /\ l \in D /\ \A x \in D : f <= x /\ x <= l
    BY <1>4, <1>5 DEF Spans
  <2>2. Min(D) = f /\ Max(D) = l
    <3> HIDE DEF D
    <3> QED
      BY <2>1, LeastAndGreatest, Zenon
  <2> QED
    BY <1>2, <2>2 DEF LoadFirstBlock, LoadLastBlock
<1> QED
  BY <1>2, <1>4, <1>6

\* A new block lies behind everything that is indexed.
LEMMA CommitBlockStep ==
  ASSUME IndexInv, NEW b \in Blocks, CommitBlock(b)
  PROVE  IndexInv'
<1>1. /\ blocks' = Append(blocks, b) /\ UNCHANGED <<db, missed, mode, latestBlock, lastBlock, i>>
      /\ headers' \in {headers, Append(headers, Height + 1)}
  BY DEF CommitBlock
<1>2. blocks' \in Seq(Blocks) /\ Height \in Nat /\ Height' = Height + 1
      /\ \A h \in 1 .. Height : blocks'[h] = blocks[h]
  BY <1>1 DEF IndexInv, IndexTypeOK, Height
<1>3. \A h \in 1 .. Height : IndexBlock(h)' = IndexBlock(h)
  BY <1>2, Zenon DEF IndexBlock, EthIndex
<1>4. LoadFirstBlock' = LoadFirstBlock /\ LoadLastBlock' = LoadLastBlock
  BY <1>1 DEF LoadFirstBlock, LoadLastBlock
<1>5. headers' \in Seq(Nat) /\ \A k \in DOMAIN headers' : headers'[k] <= Height'
  <2>1. headers \in Seq(Nat) /\ \A k \in DOMAIN headers : headers[k] <= Height
    BY DEF IndexInv, IndexTypeOK
  <2>2. CASE headers' = headers
    BY <1>2, <2>1, <2>2
  <2>3. CASE headers' = Append(headers, Height + 1)
    BY <1>2, <2>1, <2>3
  <2> QED
    BY <1>1, <2>2, <2>3
<1>6. IndexTypeOK'
  BY <1>1, <1>2, <1>5 DEF IndexInv, IndexTypeOK
<1>7. Progress'
  <2>1. db # {} => LoadFirstBlock \in 1 .. Height /\ LoadLastBlock \in 1 .. Height
    BY IndexBounds
  <2>2. /\ mode' = "scan" => i' = lastBlock' + 1
        /\ Serving' => lastBlock' <= Height'
    BY <1>1, <1>2 DEF IndexInv, IndexTypeOK, Progress, Serving
  <2>3. ASSUME db' # {}
        PROVE  /\ Spans(LoadFirstBlock, LoadLastBlock)'
               /\ Covered(LoadFirstBlock, LoadLastBlock)'
    BY <1>1, <1>2, <1>3, <1>4, <2>1, <2>3 DEF IndexInv, Progress, Spans, Covered
  <2>4. ASSUME db' # {}, Serving'
        PROVE  LoadLastBlock' <= lastBlock' /\ Covered(LoadFirstBlock, lastBlock)'
    BY <1>1, <1>2, <1>3, <1>4, <2>1, <2>4 DEF IndexInv, IndexTypeOK, Progress, Covered, Serving
  <2>5. mode' # "forward" /\ mode' # "backward"
    BY <1>1 DEF CommitBlock, NodeUp
  <2> QED
    BY <2>2, <2>3, <2>4, <2>5, Zenon DEF Progress
<1> QED
  BY <1>6, <1>7 DEF IndexInv

\* Steps of the node, the service and the commands that write nothing.
LEMMA QuietSteps ==
  ASSUME IndexInv, StartNode \/ Stop \/ Status \/ Subscribe \/ EnterScan \/ LeaveScan \/ FetchFails
                     \/ CommandEnd
  PROVE  IndexInv'
<1>1. UNCHANGED <<blocks, db, missed>>
  BY DEF StartNode, Stop, Status, Subscribe, EnterScan, LeaveScan, FetchFails, CommandEnd, service
<1>2. /\ LoadFirstBlock' = LoadFirstBlock /\ LoadLastBlock' = LoadLastBlock
      /\ Height' = Height /\ \A h : IndexBlock(h)' = IndexBlock(h)
  BY <1>1, SameIndex
<1>3. Height \in Nat
  BY DEF IndexInv, IndexTypeOK, Height
<1>4. IndexTypeOK'
  <2>1. /\ mode' \in {"down", "up", "status", "subscribed", "loop", "scan"}
        /\ latestBlock' \in {0, latestBlock, Height} /\ lastBlock' \in {0, lastBlock}
        /\ i' \in {0, i, lastBlock + 1} /\ headers' \in {<<>>, headers}
    BY DEF StartNode, Stop, Status, Subscribe, EnterScan, LeaveScan, FetchFails, CommandEnd, service
  <2>2. headers' \in Seq(Nat) /\ \A k \in DOMAIN headers' : headers'[k] <= Height'
    <3>1. CASE headers' = <<>>
      BY <3>1
    <3>2. CASE headers' = headers
      BY <1>2, <3>2 DEF IndexInv, IndexTypeOK
    <3> QED
      BY <2>1, <3>1, <3>2
  <2> QED
    BY <1>1, <1>2, <1>3, <2>1, <2>2 DEF IndexInv, IndexTypeOK
<1>5. \/ mode' \in {"down", "up", "status", "subscribed"}
      \/ /\ mode' \in {"loop", "scan"} /\ Serving /\ lastBlock' = lastBlock
         /\ mode' = "scan" => i' = lastBlock' + 1
  BY DEF StartNode, Stop, Status, Subscribe, EnterScan, LeaveScan, FetchFails, CommandEnd, service,
         Serving
<1>6. /\ mode' = "scan" => i' = lastBlock' + 1
      /\ Serving' => lastBlock' <= Height'
  BY <1>2, <1>5 DEF IndexInv, Progress, Serving
<1>7. ASSUME db' # {}
      PROVE  /\ Spans(LoadFirstBlock, LoadLastBlock)'
             /\ Covered(LoadFirstBlock, LoadLastBlock)'
             /\ Serving' => LoadLastBlock' <= lastBlock' /\ Covered(LoadFirstBlock, lastBlock)'
  BY <1>1, <1>2, <1>5, <1>7 DEF IndexInv, Progress, Spans, Covered, Serving
<1> QED
  BY <1>4, <1>5, <1>6, <1>7 DEF IndexInv, Progress

\* A header may raise latestBlock, to a block that there is.
LEMMA ReceiveHeaderStep ==
  ASSUME IndexInv, ReceiveHeader
  PROVE  IndexInv'
<1>1. /\ UNCHANGED <<blocks, db, missed, mode, lastBlock, i>>
      /\ headers # <<>> /\ headers' = Tail(headers)
      /\ latestBlock' = Max({latestBlock, Head(headers)})
  BY DEF ReceiveHeader
<1>2. /\ LoadFirstBlock' = LoadFirstBlock /\ LoadLastBlock' = LoadLastBlock
      /\ Height' = Height /\ \A h : IndexBlock(h)' = IndexBlock(h)
  BY <1>1, SameIndex
<1>3. /\ Height \in Nat /\ latestBlock \in 0 .. Height /\ headers \in Seq(Nat)
      /\ \A k \in DOMAIN headers : headers[k] <= Height
  BY DEF IndexInv, IndexTypeOK, Height
<1>4. Head(headers) \in 0 .. Height
  BY <1>1, <1>3
<1>5. latestBlock' \in 0 .. Height
  <2>1. PICK x : x = Head(headers)
    OBVIOUS
  <2>2. \E y \in {latestBlock, x} : \A z \in {latestBlock, x} : y >= z
    BY <1>3, <1>4, <2>1
  <2>3. Max({latestBlock, x}) \in {latestBlock, x}
    BY <2>2 DEF Max
  <2> QED
    BY <1>1, <1>3, <1>4, <2>1, <2>3
<1>6. headers' \in Seq(Nat) /\ \A k \in DOMAIN headers' : headers'[k] <= Height'
  BY <1>1, <1>2, <1>3
<1>7. IndexTypeOK'
  BY <1>1, <1>2, <1>5, <1>6 DEF IndexInv, IndexTypeOK
<1>8. Progress'
  BY <1>1, <1>2 DEF IndexInv, Progress, Spans, Covered, Serving
<1> QED
  BY <1>7, <1>8 DEF IndexInv

\* The service goes on behind the last block that is indexed.
LEMMA ResumeStep ==
  ASSUME IndexInv, Resume
  PROVE  IndexInv'
<1>1. /\ UNCHANGED <<blocks, db, missed, latestBlock, headers, i>>
      /\ mode' = "loop" /\ lastBlock' = FirstLastBlock
  BY DEF Resume
<1>2. /\ LoadFirstBlock' = LoadFirstBlock /\ LoadLastBlock' = LoadLastBlock
      /\ Height' = Height /\ \A h : IndexBlock(h)' = IndexBlock(h)
  BY <1>1, SameIndex
<1>3. Height \in Nat /\ (db # {} => LoadLastBlock \in 1 .. Height) /\ (db = {} => LoadLastBlock = -1)
  BY IndexBounds
<1>4. lastBlock' \in 0 .. Height /\ (db # {} => lastBlock' = LoadLastBlock)
  BY <1>1, <1>3 DEF FirstLastBlock, IndexInv, IndexTypeOK
<1>5. IndexTypeOK'
  BY <1>1, <1>2, <1>4 DEF IndexInv, IndexTypeOK
<1>6. Progress'
  BY <1>1, <1>2, <1>3, <1>4 DEF IndexInv, Progress, Spans, Covered, Serving
<1> QED
  BY <1>5, <1>6 DEF IndexInv

\* A command begins next to what is indexed.
LEMMA CommandBegins ==
  ASSUME IndexInv, Backward \/ Forward
  PROVE  IndexInv'
<1>1. /\ UNCHANGED <<blocks, db, missed, latestBlock, lastBlock, headers>>
      /\ \/ mode' = "backward" /\ i' = BackwardFrom
         \/ mode' = "forward" /\ i' = ForwardFrom
  BY DEF Backward, Forward, service
<1>2. /\ LoadFirstBlock' = LoadFirstBlock /\ LoadLastBlock' = LoadLastBlock
      /\ Height' = Height /\ \A h : IndexBlock(h)' = IndexBlock(h)
  BY <1>1, SameIndex
<1>3. /\ Height \in Nat
      /\ db # {} => LoadFirstBlock \in 1 .. Height /\ LoadLastBlock \in 1 .. Height
      /\ db = {} => LoadFirstBlock = -1 /\ LoadLastBlock = -1
  BY IndexBounds
<1>4. /\ BackwardFrom \in Int /\ (db # {} => BackwardFrom = LoadFirstBlock - 1)
      /\ ForwardFrom \in Int /\ (db # {} => ForwardFrom = LoadLastBlock + 1)
  BY <1>3 DEF BackwardFrom, ForwardFrom
<1>5. IndexTypeOK'
  BY <1>1, <1>2, <1>4 DEF IndexInv, IndexTypeOK
<1>6. Progress'
  BY <1>1, <1>2, <1>3, <1>4 DEF IndexInv, Progress, Spans, Covered, Serving
<1> QED
  BY <1>5, <1>6 DEF IndexInv

\* A step that writes a block next to what is covered.
LEMMA WriteKeeps ==
  ASSUME IndexInv, NEW h \in 1 .. Height, db' = db \cup IndexBlock(h), missed' = missed \ {h},
         blocks' = blocks
  PROVE  /\ \A e \in db' : e[1] \in 1 .. Height
         /\ \A k : k = h \/ (k \notin missed => IndexBlock(k) \subseteq db)
                   => (k \notin missed' => IndexBlock(k)' \subseteq db')
<1>1. \A k : IndexBlock(k)' = IndexBlock(k)
  BY DEF IndexBlock, EthIndex
<1> QED
  BY <1>1, EntriesOfBlock DEF IndexInv, IndexTypeOK

\* The service writes the next block.
LEMMA IndexNextStep ==
  ASSUME IndexInv, IndexNext
  PROVE  IndexInv'
<1>1. /\ mode = "scan" /\ mode' = "scan" /\ i <= latestBlock /\ db' = db \cup IndexBlock(i)
      /\ missed' = missed \ {i} /\ lastBlock' = i /\ i' = i + 1
      /\ UNCHANGED <<blocks, latestBlock, headers>>
  BY DEF IndexNext
<1>2. /\ i = lastBlock + 1 /\ lastBlock \in Nat /\ Height \in Nat /\ i \in 1 .. Height
      /\ Height' = Height
  BY <1>1, IndexBounds DEF IndexInv, IndexTypeOK, Progress, Height
<1>3. PICK h \in 1 .. Height : h = i
  BY <1>2
<1>4. /\ \A e \in db' : e[1] \in 1 .. Height
      /\ \A k : k = h \/ (k \notin missed => IndexBlock(k) \subseteq db)
                => (k \notin missed' => IndexBlock(k)' \subseteq db')
  BY <1>1, <1>3, WriteKeeps
<1>5. IndexTypeOK'
  BY <1>1, <1>2, <1>4 DEF IndexInv, IndexTypeOK
<1>6. CASE IndexBlock(h) = {}
  <2>1. db' = db
    BY <1>1, <1>3, <1>6
  <2>2. LoadFirstBlock' = LoadFirstBlock /\ LoadLastBlock' = LoadLastBlock
    BY <1>1, <2>1, SameIndex
  <2>3. Progress'
    BY <1>1, <1>2, <1>3, <1>4, <2>1, <2>2, IndexBounds DEF IndexInv, Progress, Spans, Covered, Serving
  <2> QED
    BY <1>5, <2>3 DEF IndexInv
<1>7. CASE IndexBlock(h) # {}
  <2>1. PICK f, l : /\ f = (IF db = {} \/ h < LoadFirstBlock THEN h ELSE LoadFirstBlock)
                    /\ l = (IF db = {} \/ h > LoadLastBlock THEN h ELSE LoadLastBlock)
    OBVIOUS
  <2>2. db' # {} /\ LoadFirstBlock' = f /\ LoadLastBlock' = l /\ Spans(f, l)'
    BY <1>1, <1>3, <1>7, <2>1, IndexGrows
  <2>3. l = h /\ f \in 1 .. h /\ (f = h \/ (db # {} /\ f = LoadFirstBlock))
    <3>1. db # {} => LoadFirstBlock \in 1 .. lastBlock /\ LoadLastBlock \in 1 .. lastBlock
      BY <1>1, <1>2, IndexBounds DEF IndexInv, Progress, Serving
    <3>2. CASE db = {}
      BY <2>1, <3>2
    <3>3. CASE db # {}
      <4>1. h > LoadLastBlock /\ ~(h < LoadFirstBlock) /\ LoadFirstBlock \in 1 .. h
        BY <1>2, <1>3, <3>1, <3>3
      <4> QED
        BY <2>1, <3>3, <4>1
    <3> QED
      BY <3>2, <3>3
  <2>4. \A k \in f .. h : k \notin missed' => IndexBlock(k)' \subseteq db'
    BY <1>1, <1>2, <1>3, <1>4, <2>3 DEF IndexInv, Progress, Covered, Serving
  <2>5. Covered(LoadFirstBlock, LoadLastBlock)' /\ Covered(LoadFirstBlock, lastBlock)'
    BY <1>1, <1>3, <2>2, <2>3, <2>4 DEF Covered
  <2>6. Progress'
    BY <1>1, <1>2, <1>3, <2>2, <2>3, <2>5 DEF Progress, Spans
  <2> QED
    BY <1>5, <2>6 DEF IndexInv
<1> QED
  BY <1>6, <1>7

\* The service passes a block that it cannot write.
LEMMA IndexFailsStep ==
  ASSUME IndexInv, IndexFails
  PROVE  IndexInv'
<1>1. /\ mode = "scan" /\ mode' = "scan" /\ i <= latestBlock /\ missed' = missed \cup {i}
      /\ lastBlock' = i /\ i' = i + 1 /\ UNCHANGED <<blocks, db, latestBlock, headers>>
  BY DEF IndexFails
<1>2. /\ i = lastBlock + 1 /\ lastBlock \in Nat /\ Height \in Nat /\ i \in 1 .. Height
  BY <1>1, IndexBounds DEF IndexInv, IndexTypeOK, Progress
<1>3. /\ LoadFirstBlock' = LoadFirstBlock /\ LoadLastBlock' = LoadLastBlock
      /\ Height' = Height /\ \A h : IndexBlock(h)' = IndexBlock(h)
  BY <1>1, SameIndex
<1>4. IndexTypeOK'
  BY <1>1, <1>2, <1>3 DEF IndexInv, IndexTypeOK
<1>5. Progress'
  BY <1>1, <1>2, <1>3, IndexBounds DEF IndexInv, Progress, Spans, Covered, Serving
<1> QED
  BY <1>4, <1>5 DEF IndexInv

\* A command writes the block before or behind what is indexed.
LEMMA CommandStepKeeps ==
  ASSUME IndexInv, CommandStep
  PROVE  IndexInv'
<1>1. PICK h \in 1 .. Height :
        /\ h = i /\ db' = db \cup IndexBlock(h) /\ missed' = missed \ {h}
        /\ UNCHANGED <<blocks, mode, latestBlock, lastBlock, headers>>
        /\ \/ mode = "backward" /\ i' = h - 1
           \/ mode = "forward" /\ i' = h + 1
  BY DEF CommandStep, service
<1>2. Height \in Nat /\ Height' = Height /\ (db # {} => LoadFirstBlock <= LoadLastBlock)
  BY <1>1, IndexBounds DEF Height
<1>3. /\ \A e \in db' : e[1] \in 1 .. Height
      /\ \A k : k = h \/ (k \notin missed => IndexBlock(k) \subseteq db)
                => (k \notin missed' => IndexBlock(k)' \subseteq db')
  BY <1>1, WriteKeeps
<1>4. IndexTypeOK'
  BY <1>1, <1>2, <1>3 DEF IndexInv, IndexTypeOK
<1>5. mode' # "scan" /\ ~Serving'
  BY <1>1 DEF Serving
<1>6. CASE IndexBlock(h) = {}
  <2>1. db' = db
    BY <1>1, <1>6
  <2>2. LoadFirstBlock' = LoadFirstBlock /\ LoadLastBlock' = LoadLastBlock
    BY <1>1, <2>1, SameIndex
  <2>3. Progress'
    BY <1>1, <1>2, <1>3, <1>5, <2>1, <2>2, IndexBounds DEF IndexInv, Progress, Spans, Covered
  <2> QED
    BY <1>4, <2>3 DEF IndexInv
<1>7. CASE IndexBlock(h) # {}
  <2>1. PICK f, l : /\ f = (IF db = {} \/ h < LoadFirstBlock THEN h ELSE LoadFirstBlock)
                    /\ l = (IF db = {} \/ h > LoadLastBlock THEN h ELSE LoadLastBlock)
    OBVIOUS
  <2>2. db' # {} /\ LoadFirstBlock' = f /\ LoadLastBlock' = l /\ Spans(f, l)'
    BY <1>1, <1>7, <2>1, IndexGrows
  <2>3. /\ f \in 1 .. h /\ l \in h .. Height
        /\ mode = "backward" => f = h /\ (l = h \/ (db # {} /\ l = LoadLastBlock))
        /\ mode = "forward" => l = h /\ (f = h \/ (db # {} /\ f = LoadFirstBlock))
    BY <1>1, <1>2, <2>1, IndexBounds DEF IndexInv, Progress
  <2>4. \A k \in f .. l : k \notin missed' => IndexBlock(k)' \subseteq db'
    BY <1>1, <1>3, <2>3 DEF IndexInv, Progress, Covered
  <2>5. /\ Covered(LoadFirstBlock, LoadLastBlock)'
        /\ mode = "backward" => Covered(i + 1, LoadLastBlock)'
        /\ mode = "forward" => Covered(LoadFirstBlock, i - 1)'
    BY <1>1, <2>2, <2>3, <2>4 DEF Covered
  <2>6. Progress'
    BY <1>1, <1>5, <2>2, <2>3, <2>5 DEF Progress, Spans
  <2> QED
    BY <1>4, <2>6 DEF IndexInv
<1> QED
  BY <1>6, <1>7

\* The inductive invariant of the index.
THEOREM IndexInvariant == IndexSpec => []IndexInv
<1>1. IndexInit => IndexInv
  <2> SUFFICES ASSUME IndexInit PROVE IndexInv
    OBVIOUS
  <2>1. blocks = <<>> /\ db = {} /\ mode = "down" /\ latestBlock = 0 /\ lastBlock = 0 /\ i = 0
        /\ headers = <<>>
    BY DEF IndexInit
  <2> QED
    BY <2>1 DEF IndexInv, IndexTypeOK, Progress, Serving, Height
<1>2. IndexInv /\ [IndexerNext]_indexVars => IndexInv'
  <2> SUFFICES ASSUME IndexInv, [IndexerNext]_indexVars PROVE IndexInv'
    OBVIOUS
  <2>1. CASE UNCHANGED indexVars
    <3>1. UNCHANGED <<blocks, db, missed, mode, latestBlock, lastBlock, i, headers>>
      BY <2>1 DEF indexVars
    <3>2. /\ LoadFirstBlock' = LoadFirstBlock /\ LoadLastBlock' = LoadLastBlock
          /\ Height' = Height /\ \A h : IndexBlock(h)' = IndexBlock(h)
      BY <3>1, SameIndex
    <3>3. IndexTypeOK' /\ Progress'
      BY <3>1, <3>2 DEF IndexInv, IndexTypeOK, Progress, Spans, Covered, Serving
    <3> QED
      BY <3>3 DEF IndexInv
  <2>2. CASE IndexerNext
    BY <2>2, CommitBlockStep, QuietSteps, ReceiveHeaderStep, ResumeStep, CommandBegins, IndexNextStep,
       IndexFailsStep, CommandStepKeeps, Zenon DEF IndexerNext, Command
  <2> QED
    BY <2>1, <2>2
<1> QED
  BY <1>1, <1>2, PTL DEF IndexSpec

\* Between the first indexed block and the last one indexed or passed no block is left
\* out, whatever stops, restarts and commands there were (OnStart, NewIndexTxCmd).
THEOREM IndexHasNoGap == IndexSpec => []NoGap
<1>1. IndexInv => NoGap
  <2> SUFFICES ASSUME IndexInv, NEW h \in 1 .. Height, db # {}, LoadFirstBlock <= h,
                      h <= LoadLastBlock \/ (Serving /\ h <= lastBlock), h \notin missed
               PROVE  IndexBlock(h) \subseteq db
    BY DEF NoGap
  <2>1. LoadFirstBlock \in 1 .. Height /\ LoadLastBlock \in 1 .. Height /\ lastBlock \in Nat
        /\ Height \in Nat
    BY IndexBounds DEF IndexInv, IndexTypeOK
  <2>2. CASE h <= LoadLastBlock
    BY <2>1, <2>2 DEF IndexInv, Progress, Covered
  <2>3. CASE Serving /\ h <= lastBlock
    BY <2>1, <2>3 DEF IndexInv, Progress, Covered
  <2> QED
    BY <2>2, <2>3
<1> QED
  BY <1>1, IndexInvariant, PTL
----------------------------------------------------------------------------
\* The websockets.

Increasing(s) == \A j, k \in DOMAIN s : j < k => s[j] < s[k]

Subscription ==
  [pc : {"read", "unlocked", "waiting", "write", "done", "dropped"}, conn : Conns, stream : Nat,
   offset : Nat \cup {-1}, next : Nat, channel : Nat, cancelled : BOOLEAN]

\* t holds events of the first n of a stream.
From(t, stream, n) == \A j \in DOMAIN t : \E p \in 1 .. n : t[j] = stream[p]

\* How far into its stream a subscription was notified.
Upto(s) == IF s.pc = "write" THEN s.next - 1 ELSE s.offset

\* A subscription s has been notified of t, by events of its stream that it has passed.
SubOK(S, s, t) ==
  /\ Increasing(t)
  /\ s.pc \notin {"done", "dropped"} =>
       /\ s.stream \in 0 .. Len(S)
       /\ s.stream = NoStream => s.pc = "read" /\ t = <<>>
       /\ s.stream # NoStream => s.offset <= Len(S[s.stream])
       /\ s.pc = "write" => s.next \in 1 .. s.offset
       /\ s.pc \in {"unlocked", "waiting"} => s.offset >= 0
       /\ From(t, S[s.stream], Upto(s))

\* Where a read loop may be, and where it is setting up the streams.
Places == {"read", "closing", "reply", "check", "header", "log", "cometBlocks", "cometLogs", "go", "done"}
SettingUp == {"log", "cometBlocks", "cometLogs"}

ServerTypeOK ==
  /\ headerStream \in 0 .. Len(streams) /\ logStream \in 0 .. Len(streams)
  /\ streams \in Seq(Seq(Nat)) /\ Len(streams) >= 1
  /\ feeds \in Seq([newHeads : Nat, logs : Nat]) /\ Len(feeds) <= 1
  /\ loop \in [Conns -> Places]
  /\ subs \in Seq(Subscription) /\ told \in Seq(Seq(Nat)) /\ Len(told) = Len(subs)

\* A stream got nothing but from the one feed there may be, up to its count of topic t.
FedUpTo(stream, fs, t) == \A j \in DOMAIN stream : fs # <<>> /\ stream[j] <= fs[1][t]

\* The pending transactions are numbered as they come.
Counted(stream) == \A j \in DOMAIN stream : stream[j] <= Len(stream)

AllIncreasing(S) == \A k \in DOMAIN S : Increasing(S[k])

\* Who sets up the streams has made those it has passed, and one read loop at most has
\* the first subscription to CometBFT and not the second.
LoopsOK ==
  /\ \A c \in Conns : loop[c] \in SettingUp => headerStream # NoStream
  /\ \A c \in Conns : loop[c] \in SettingUp \ {"log"} => logStream # NoStream
  /\ \A c \in Conns : loop[c] = "cometLogs" =>
       feeds = <<>> /\ \A d \in Conns : loop[d] = "cometLogs" => d = c

\* The fields name different streams, which the one feed fills in order.
StreamsOK ==
  /\ headerStream # pendingTxStream /\ logStream # pendingTxStream
  /\ headerStream # NoStream =>
       headerStream # logStream /\ FedUpTo(streams[headerStream], feeds, "newHeads")
  /\ logStream # NoStream => FedUpTo(streams[logStream], feeds, "logs")
  /\ AllIncreasing(streams) /\ Counted(streams[pendingTxStream])
  /\ LoopsOK
  /\ feeds # <<>> => headerStream # NoStream /\ logStream # NoStream

SubsOK == \A id \in DOMAIN subs : SubOK(streams, subs[id], told[id])

ServerInv == ServerTypeOK /\ StreamsOK /\ SubsOK

\* Streams S have become T by events at their ends, and new streams.
Begins(a, b) == Len(a) <= Len(b) /\ \A p \in 1 .. Len(a) : b[p] = a[p]
Grown(S, T) == Len(S) <= Len(T) /\ \A k \in 1 .. Len(S) : Begins(S[k], T[k])

\* A subscription does not notice what comes behind the place it has read to.
LEMMA GrownKeeps ==
  ASSUME NEW S \in Seq(Seq(Nat)), NEW T \in Seq(Seq(Nat)), Grown(S, T),
         NEW s \in Subscription, NEW t, SubOK(S, s, t)
  PROVE  SubOK(T, s, t)
<1> SUFFICES ASSUME s.pc \notin {"done", "dropped"}
             PROVE  /\ s.stream \in 0 .. Len(T)
                    /\ s.stream # NoStream => s.offset <= Len(T[s.stream])
                    /\ From(t, T[s.stream], Upto(s))
  BY DEF SubOK
<1>1. /\ s.stream \in 0 .. Len(S) /\ s.offset \in Int /\ s.next \in Nat
      /\ s.stream # NoStream => s.offset <= Len(S[s.stream])
      /\ s.stream = NoStream => t = <<>>
      /\ s.pc = "write" => s.next \in 1 .. s.offset
      /\ From(t, S[s.stream], Upto(s))
  BY SMTT(30) DEF SubOK, Subscription
<1>2. Len(S) \in Nat /\ Len(T) \in Nat /\ Len(S) <= Len(T)
  BY DEF Grown
<1>3. CASE s.stream = NoStream
  BY <1>1, <1>2, <1>3 DEF NoStream, From
<1>4. CASE s.stream # NoStream
  <2>1. PICK k \in 1 .. Len(S) : k = s.stream
    BY <1>1, <1>2, <1>4 DEF NoStream
  <2>2. k \in 1 .. Len(T) /\ S[k] \in Seq(Nat) /\ T[k] \in Seq(Nat)
    BY <1>2, <2>1
  <2>3. PICK m \in Nat, n \in Nat : m = Len(S[k]) /\ n = Len(T[k])
    BY <2>2
  <2>4. m <= n /\ \A p \in 1 .. m : T[k][p] = S[k][p]
    BY <2>1, <2>3, Zenon DEF Grown, Begins
  <2>5. PICK o \in Int : o = s.offset
    BY <1>1
  <2>6. o <= m
    BY <1>1, <1>4, <2>1, <2>3, <2>5
  <2>7. PICK to \in Int : to = Upto(s) /\ to <= m
    BY <1>1, <2>3, <2>5, <2>6, SMTT(30) DEF Upto
  <2>8. \A p \in 1 .. to : p \in 1 .. m
    BY <2>3, <2>7
  <2>9. From(t, T[k], to)
    <3>1. \A j \in DOMAIN t : \E p \in 1 .. to : t[j] = S[k][p]
      BY <1>1, <2>1, <2>7, Zenon DEF From
    <3> QED
      BY <2>4, <2>8, <3>1, Zenon DEF From
  <2>10. o <= n
    BY <2>3, <2>4, <2>5, <2>6
  <2> QED
    BY <2>1, <2>2, <2>3, <2>5, <2>7, <2>9, <2>10
<1> QED
  BY <1>3, <1>4, SMTT(30)

\* The same place, seen through fields that do not matter.
LEMMA SamePlace ==
  ASSUME NEW S, NEW s, NEW u, NEW t, SubOK(S, s, t),
         u.pc = s.pc, u.stream = s.stream, u.offset = s.offset, u.next = s.next
  PROVE  SubOK(S, u, t)
BY DEF SubOK, Upto

\* A context that is cancelled leaves its subscription where it is.
LEMMA CancelledOne ==
  ASSUME NEW s \in Subscription, NEW u, u = s \/ u = [s EXCEPT !.cancelled = TRUE]
  PROVE  u \in Subscription /\ u.pc = s.pc /\ u.stream = s.stream /\ u.offset = s.offset /\ u.next = s.next
<1>1. CASE u = s
  BY <1>1
<1>2. CASE u = [s EXCEPT !.cancelled = TRUE]
  BY <1>2, Zenon DEF Subscription
<1> QED
  BY <1>1, <1>2

\* A read loop gets as far in setting up the streams as it has made them.
MadeFor(label, header, log) ==
  \/ label = "log" /\ header # NoStream
  \/ label = "cometBlocks" /\ header # NoStream /\ log # NoStream

\* What was made stays, and nobody gets the first subscription.
LEMMA LoopsKeep ==
  ASSUME LoopsOK, feeds' = feeds \/ \A c \in Conns : loop'[c] # "cometLogs",
         headerStream # NoStream => headerStream' # NoStream,
         logStream # NoStream => logStream' # NoStream,
         \A c \in Conns : loop'[c] \in SettingUp =>
           loop[c] = loop'[c] \/ MadeFor(loop'[c], headerStream', logStream')
  PROVE  LoopsOK'
<1>1. \A c \in Conns : loop'[c] \in SettingUp => headerStream' # NoStream
  BY Zenon DEF LoopsOK, MadeFor
<1>2. \A c \in Conns : loop'[c] \in SettingUp \ {"log"} => logStream' # NoStream
  BY Zenon DEF LoopsOK, MadeFor
<1>3. \A c \in Conns : loop'[c] = "cometLogs" => loop[c] = "cometLogs" /\ feeds' = feeds
  BY SMT DEF SettingUp, MadeFor
<1>4. \A c \in Conns : loop'[c] = "cometLogs" =>
        feeds' = <<>> /\ \A d \in Conns : loop'[d] = "cometLogs" => d = c
  BY <1>3, Zenon DEF LoopsOK
<1> QED
  BY <1>1, <1>2, <1>4, Zenon DEF LoopsOK

\* Steps of read loops that change no stream: they may cancel contexts.
LEMMA LoopOnly ==
  ASSUME ServerInv, UNCHANGED <<headerStream, logStream, streams, feeds, told>>,
         subs' = subs \/ (\E ids : subs' = Cancelled(ids)),
         loop' \in [Conns -> Places],
         \A c \in Conns : loop'[c] \in SettingUp => loop[c] = loop'[c]
  PROVE  ServerInv'
<1>1. subs \in Seq(Subscription)
  BY DEF ServerInv, ServerTypeOK
<1>2. /\ subs' \in Seq(Subscription) /\ Len(subs') = Len(subs) /\ DOMAIN subs' = DOMAIN subs
      /\ \A id \in DOMAIN subs : /\ subs'[id].pc = subs[id].pc /\ subs'[id].stream = subs[id].stream
                                  /\ subs'[id].offset = subs[id].offset
                                  /\ subs'[id].next = subs[id].next
  <2>1. CASE subs' = subs
    BY <1>1, <2>1
  <2>2. CASE \E ids : subs' = Cancelled(ids)
    <3>1. PICK ids : subs' = Cancelled(ids)
      BY <2>2
    <3>2. PICK n \in Nat : DOMAIN subs = 1 .. n /\ n = Len(subs)
      BY <1>1
    <3>3. subs' = [id \in 1 .. n |-> IF id \in ids THEN [subs[id] EXCEPT !.cancelled = TRUE] ELSE subs[id]]
      BY <3>1, <3>2 DEF Cancelled, SubIDs
    <3>4. \A id \in 1 .. n : subs[id] \in Subscription
      BY <1>1, <3>2
    <3>5. \A id \in 1 .. n : /\ subs'[id] \in Subscription
                             /\ subs'[id].pc = subs[id].pc /\ subs'[id].stream = subs[id].stream
                             /\ subs'[id].offset = subs[id].offset
                             /\ subs'[id].next = subs[id].next
      <4> SUFFICES ASSUME NEW id \in 1 .. n
                   PROVE  /\ subs'[id] \in Subscription
                          /\ subs'[id].pc = subs[id].pc /\ subs'[id].stream = subs[id].stream
                          /\ subs'[id].offset = subs[id].offset
                          /\ subs'[id].next = subs[id].next
        OBVIOUS
      <4>1. subs'[id] = subs[id] \/ subs'[id] = [subs[id] EXCEPT !.cancelled = TRUE]
        BY <3>3
      <4>2. subs[id] \in Subscription
        BY <3>4
      <4> QED
        BY <4>1, <4>2, CancelledOne
    <3>6. DOMAIN subs' = 1 .. n
      BY <3>3
    <3>7. subs' \in [1 .. n -> Subscription]
      BY <3>3, <3>5
    <3> QED
      BY <3>2, <3>5, <3>6, <3>7
  <2> QED
    BY <2>1, <2>2
<1>3. ServerTypeOK'
  BY <1>2 DEF ServerInv, ServerTypeOK
<1>4. StreamsOK'
  <2>1. LoopsOK'
    BY LoopsKeep, ZenonT(40) DEF ServerInv, StreamsOK
  <2> QED
    BY <2>1, Zenon DEF ServerInv, StreamsOK
<1>5. SubsOK'
  BY <1>2, SamePlace DEF ServerInv, SubsOK
<1> QED
  BY <1>3, <1>4, <1>5 DEF ServerInv

\* A step of one subscription, with its notifications.
LEMMA OneSub ==
  ASSUME ServerInv, UNCHANGED <<headerStream, logStream, streams, feeds, loop>>,
         NEW id \in DOMAIN subs, NEW u, NEW t,
         subs' = [subs EXCEPT ![id] = u], told' = [told EXCEPT ![id] = t],
         u \in Subscription, t \in Seq(Nat), SubOK(streams, u, t)
  PROVE  ServerInv'
<1>1. /\ subs \in Seq(Subscription) /\ told \in Seq(Seq(Nat)) /\ Len(told) = Len(subs)
  BY DEF ServerInv, ServerTypeOK
<1>2. PICK n \in Nat : DOMAIN subs = 1 .. n /\ DOMAIN told = 1 .. n /\ n = Len(subs)
  BY <1>1
<1>3. /\ subs' \in Seq(Subscription) /\ told' \in Seq(Seq(Nat)) /\ Len(told') = Len(subs')
      /\ DOMAIN subs' = DOMAIN subs
  BY <1>1, <1>2
<1>4. /\ subs'[id] = u /\ told'[id] = t
      /\ \A k \in DOMAIN subs : k # id => subs'[k] = subs[k] /\ told'[k] = told[k]
  BY <1>1, <1>2
<1>5. ServerTypeOK'
  BY <1>3 DEF ServerInv, ServerTypeOK
<1>6. StreamsOK'
  BY ZenonT(40) DEF ServerInv, StreamsOK, LoopsOK
<1>7. SubsOK'
  BY <1>3, <1>4 DEF ServerInv, SubsOK
<1> QED
  BY <1>5, <1>6, <1>7 DEF ServerInv

\* What is known of the subscription that takes a step.
LEMMA OneSubKnown ==
  ASSUME ServerInv, NEW id \in DOMAIN subs
  PROVE  /\ subs[id] \in Subscription /\ told[id] \in Seq(Nat)
         /\ SubOK(streams, subs[id], told[id])
         /\ told = [told EXCEPT ![id] = told[id]]
<1>1. /\ subs \in Seq(Subscription) /\ told \in Seq(Seq(Nat)) /\ Len(told) = Len(subs)
  BY DEF ServerInv, ServerTypeOK
<1>2. id \in 1 .. Len(told) /\ DOMAIN told = 1 .. Len(told)
  BY <1>1
<1> QED
  BY <1>1, <1>2 DEF ServerInv, SubsOK

\* The subscription after a read that found the stream's end at last, and after a
\* notification.
AfterRead(s, last) ==
  IF s.offset \in {-1, last}
  THEN [s EXCEPT !.pc = "unlocked", !.offset = last]
  ELSE [s EXCEPT !.pc = "write", !.next = s.offset + 1, !.offset = last]
AfterWrite(s) ==
  IF s.next = s.offset THEN [s EXCEPT !.pc = "read", !.next = 0] ELSE [s EXCEPT !.next = s.next + 1]

\* Reading.
LEMMA ReadOK ==
  ASSUME NEW S \in Seq(Seq(Nat)), NEW s \in Subscription, NEW t, SubOK(S, s, t),
         s.pc = "read", s.stream # NoStream, NEW u, u = AfterRead(s, Len(S[s.stream]))
  PROVE  u \in Subscription /\ SubOK(S, u, t)
<1> DEFINE end == Len(S[s.stream])
<1>0. PICK last : last = end
  BY Zenon
<1>1. /\ s.stream \in 1 .. Len(S) /\ s.offset \in Nat \cup {-1} /\ s.offset <= last /\ s.next \in Nat
      /\ Increasing(t) /\ From(t, S[s.stream], s.offset)
  BY <1>0 DEF SubOK, Subscription, Upto, NoStream
<1>2. last \in Nat
  <2>1. PICK k \in 1 .. Len(S) : k = s.stream
    BY <1>1
  <2>2. S[k] \in Seq(Nat)
    BY <2>1
  <2> QED
    BY <1>0, <2>1, <2>2
<1>3. CASE s.offset \in {-1, last}
  <2>1. u = [s EXCEPT !.pc = "unlocked", !.offset = last]
    BY <1>0, <1>3 DEF AfterRead
  <2>2. u \in Subscription /\ u.pc = "unlocked" /\ u.offset = last /\ u.stream = s.stream
    BY <1>2, <2>1, Zenon DEF Subscription
  <2>3. \A p \in 1 .. s.offset : p \in 1 .. last
    BY <1>1, <1>2
  <2>4. From(t, S[s.stream], last)
    BY <1>1, <2>3 DEF From
  <2>5. Upto(u) = last
    BY <2>2 DEF Upto
  <2> QED
    BY <1>0, <1>1, <1>2, <2>2, <2>4, <2>5 DEF SubOK, NoStream
<1>4. CASE s.offset \notin {-1, last}
  <2>1. u = [s EXCEPT !.pc = "write", !.next = s.offset + 1, !.offset = last]
    BY <1>0, <1>4 DEF AfterRead
  <2>2. s.offset \in Nat /\ s.offset < last
    BY <1>1, <1>2, <1>4
  <2>3. /\ u \in Subscription /\ u.pc = "write" /\ u.offset = last /\ u.stream = s.stream
        /\ u.next = s.offset + 1
    <3>1. PICK f \in Nat : f = s.offset + 1
      BY <2>2
    <3>2. u = [s EXCEPT !.pc = "write", !.next = f, !.offset = last]
      BY <2>1, <3>1
    <3> QED
      BY <1>2, <3>1, <3>2, ZenonT(40) DEF Subscription
  <2>4. Upto(u) = s.offset
    BY <2>2, <2>3 DEF Upto
  <2>5. u.next \in 1 .. u.offset
    BY <1>2, <2>2, <2>3
  <2> QED
    BY <1>0, <1>1, <1>2, <2>3, <2>4, <2>5 DEF SubOK, NoStream
<1> QED
  BY <1>3, <1>4

\* The event at q, after events before q.
LEMMA NextOfStream ==
  ASSUME NEW a \in Seq(Nat), Increasing(a), NEW q \in 1 .. Len(a),
         NEW t \in Seq(Nat), Increasing(t), From(t, a, q - 1)
  PROVE  Append(t, a[q]) \in Seq(Nat) /\ Increasing(Append(t, a[q])) /\ From(Append(t, a[q]), a, q)
<1>1. PICK n \in Nat : n = Len(a) /\ DOMAIN a = 1 .. n
  OBVIOUS
<1>2. PICK m \in Nat : m = Len(t) /\ DOMAIN t = 1 .. m
  OBVIOUS
<1>3. q \in 1 .. n /\ q \in Nat
  BY <1>1
<1>4. PICK v : v = Append(t, a[q])
  BY Zenon
<1>5. /\ v \in Seq(Nat) /\ DOMAIN v = 1 .. m + 1 /\ v[m + 1] = a[q]
      /\ \A j \in 1 .. m : v[j] = t[j]
  BY <1>2, <1>4
<1>6. \A j \in 1 .. m + 1 : j \in 1 .. m \/ j = m + 1
  BY <1>2
<1>7. \A j \in 1 .. m : \E p \in 1 .. n : p < q /\ v[j] = a[p]
  <2>1. \A p \in 1 .. q - 1 : p \in 1 .. n /\ p < q
    BY <1>1, <1>3
  <2> QED
    BY <1>2, <1>5, <2>1, ZenonT(40) DEF From
<1>8. \A j \in 1 .. m : v[j] < v[m + 1]
  <2> SUFFICES ASSUME NEW j \in 1 .. m
               PROVE  v[j] < v[m + 1]
    OBVIOUS
  <2>1. PICK p \in 1 .. n : p < q /\ v[j] = a[p]
    BY <1>7
  <2>2. a[p] < a[q]
    BY <1>1, <1>3, <2>1, Zenon DEF Increasing
  <2> QED
    BY <1>5, <2>1, <2>2
<1>9. Increasing(v)
  <2> SUFFICES ASSUME NEW j \in 1 .. m + 1, NEW h \in 1 .. m + 1, j < h
               PROVE  v[j] < v[h]
    BY <1>5 DEF Increasing
  <2>1. j \in 1 .. m
    BY <1>2
  <2>2. CASE h = m + 1
    BY <1>8, <2>1, <2>2
  <2>3. CASE h \in 1 .. m
    BY <1>2, <1>5, <2>1, <2>3, Zenon DEF Increasing
  <2> QED
    BY <1>6, <2>2, <2>3
<1>10. From(v, a, q)
  <2> SUFFICES ASSUME NEW j \in 1 .. m + 1
               PROVE  \E p \in 1 .. q : v[j] = a[p]
    BY <1>5, Zenon DEF From
  <2>1. q \in 1 .. q /\ \A p \in 1 .. n : p < q => p \in 1 .. q
    BY <1>1, <1>3
  <2>2. CASE j = m + 1
    BY <1>5, <2>1, <2>2
  <2>3. CASE j \in 1 .. m
    BY <1>7, <2>1, <2>3, Zenon
  <2> QED
    BY <1>6, <2>2, <2>3
<1> QED
  BY <1>4, <1>5, <1>9, <1>10

\* The last event was written.
LEMMA ReadsAgain ==
  ASSUME NEW s \in Subscription, NEW u, u = [s EXCEPT !.pc = "read", !.next = 0]
  PROVE  u \in Subscription /\ u.pc = "read" /\ u.offset = s.offset /\ u.stream = s.stream
BY Zenon DEF Subscription

\* One notification: the event at s.next, and then the next one or the next read.
LEMMA WriteOK ==
  ASSUME NEW S \in Seq(Seq(Nat)), NEW s \in Subscription, NEW t \in Seq(Nat), SubOK(S, s, t),
         AllIncreasing(S), s.pc = "write", NEW u, u = AfterWrite(s)
  PROVE  /\ u \in Subscription /\ Append(t, S[s.stream][s.next]) \in Seq(Nat)
         /\ SubOK(S, u, Append(t, S[s.stream][s.next]))
<1>1. /\ s.stream \in 1 .. Len(S) /\ s.offset \in Nat /\ s.next \in 1 .. s.offset
      /\ s.offset <= Len(S[s.stream]) /\ Increasing(t) /\ From(t, S[s.stream], s.next - 1)
  BY DEF SubOK, Subscription, Upto, NoStream
<1>2. PICK k \in 1 .. Len(S) : k = s.stream
  BY <1>1
<1>3. S[k] \in Seq(Nat) /\ Increasing(S[k])
  BY <1>2 DEF AllIncreasing
<1>4. PICK q \in Nat, o \in Nat : q = s.next /\ o = s.offset /\ q \in 1 .. o /\ o <= Len(S[k])
  BY <1>1, <1>2
<1>5. q \in 1 .. Len(S[k])
  BY <1>3, <1>4
<1>6. From(t, S[k], q - 1)
  BY <1>1, <1>2, <1>4
<1>7. PICK v : v = Append(t, S[k][q])
  BY Zenon
<1>8. v \in Seq(Nat) /\ Increasing(v) /\ From(v, S[k], q)
  BY <1>1, <1>3, <1>5, <1>6, <1>7, NextOfStream, SMTT(30)
<1>9. CASE q = o
  <2>1. u = [s EXCEPT !.pc = "read", !.next = 0]
    BY <1>4, <1>9 DEF AfterWrite
  <2>2. u \in Subscription /\ u.pc = "read" /\ u.offset = o /\ u.stream = k
    BY <1>2, <1>4, <2>1, ReadsAgain, Zenon
  <2>3. Upto(u) = q
    BY <1>9, <2>2 DEF Upto
  <2>4. SubOK(S, u, v)
    BY <1>2, <1>4, <1>8, <2>2, <2>3 DEF SubOK, NoStream
  <2> QED
    BY <1>2, <1>4, <1>7, <1>8, <2>2, <2>4
<1>10. CASE q # o
  <2>1. PICK f \in Nat : f = q + 1
    BY <1>4
  <2>2. u = [s EXCEPT !.next = f]
    BY <1>4, <1>10, <2>1 DEF AfterWrite
  <2>3. u \in Subscription /\ u.pc = "write" /\ u.offset = o /\ u.stream = k /\ u.next = f
    BY <1>2, <1>4, <2>1, <2>2, Zenon DEF Subscription
  <2>4. Upto(u) = q
    BY <1>4, <2>1, <2>3 DEF Upto
  <2>5. f \in 1 .. o
    BY <1>4, <1>10, <2>1, SMTT(20)
  <2>6. SubOK(S, u, v)
    BY <1>2, <1>4, <1>8, <2>3, <2>4, <2>5 DEF SubOK, NoStream
  <2> QED
    BY <1>2, <1>4, <1>7, <1>8, <2>3, <2>6
<1> QED
  BY <1>9, <1>10

\* A goroutine that has returned.
LEMMA EndedOK ==
  ASSUME NEW S, NEW s \in Subscription, NEW t, Increasing(t), NEW label \in {"done", "dropped"}, NEW u,
         u = [s EXCEPT !.pc = label, !.stream = NoStream, !.offset = -1, !.next = 0,
                       !.channel = 0, !.cancelled = TRUE]
  PROVE  u \in Subscription /\ SubOK(S, u, t)
<1>1. u \in Subscription
  BY Zenon DEF Subscription, NoStream
<1>2. u.pc = label
  BY DEF Subscription
<1> QED
  BY <1>1, <1>2 DEF SubOK

\* The steps of the goroutine of a subscription.
LEMMA SubReadStep ==
  ASSUME ServerInv, NEW id \in DOMAIN subs, SubRead(id)
  PROVE  ServerInv'
<1>1. PICK s : s = subs[id]
  OBVIOUS
<1>2. s \in Subscription /\ told[id] \in Seq(Nat) /\ SubOK(streams, s, told[id])
      /\ told = [told EXCEPT ![id] = told[id]]
  BY <1>1, OneSubKnown
<1>3. streams \in Seq(Seq(Nat))
  BY DEF ServerInv, ServerTypeOK
<1>4. UNCHANGED <<headerStream, logStream, streams, feeds, loop, told>> /\ s.pc = "read"
  BY <1>1 DEF SubRead, streamFields, Sub
<1>5. CASE s.stream = NoStream
  <2>1. subs' = subs
    BY <1>1, <1>5 DEF SubRead
  <2> QED
    BY <1>4, <2>1, LoopOnly DEF ServerInv, ServerTypeOK
<1>6. CASE s.stream # NoStream
  <2>1. PICK u : u = AfterRead(s, Len(streams[s.stream]))
    OBVIOUS
  <2>2. subs' = [subs EXCEPT ![id] = u]
    BY <1>1, <1>6, <2>1 DEF SubRead, AfterRead
  <2>3. u \in Subscription /\ SubOK(streams, u, told[id])
    BY <1>2, <1>3, <1>4, <1>6, <2>1, ReadOK
  <2> QED
    BY <1>2, <1>4, <2>2, <2>3, OneSub, Zenon
<1> QED
  BY <1>5, <1>6

LEMMA SubWaitStep ==
  ASSUME ServerInv, NEW id \in DOMAIN subs, SubWait(id)
  PROVE  ServerInv'
<1>1. PICK s : s = subs[id]
  OBVIOUS
<1>2. s \in Subscription /\ told[id] \in Seq(Nat) /\ SubOK(streams, s, told[id])
      /\ told = [told EXCEPT ![id] = told[id]]
  BY <1>1, OneSubKnown
<1>3. streams \in Seq(Seq(Nat))
  BY DEF ServerInv, ServerTypeOK
<1>4. UNCHANGED <<headerStream, logStream, streams, feeds, loop, told>> /\ s.pc = "unlocked"
  BY <1>1 DEF SubWait, streamFields, Sub
<1>5. s.stream \in 1 .. Len(streams)
  BY <1>2, <1>3, <1>4 DEF SubOK, NoStream
<1>6. PICK n \in Nat : n = Len(streams[s.stream])
  <2>1. PICK k \in 1 .. Len(streams) : k = s.stream
    BY <1>5
  <2>2. streams[k] \in Seq(Nat)
    BY <1>3, <2>1
  <2> QED
    BY <2>1, <2>2
<1>7. PICK u : u = [s EXCEPT !.pc = "waiting", !.channel = n]
  BY Zenon
<1>8. subs' = [subs EXCEPT ![id] = u]
  BY <1>1, <1>6, <1>7 DEF SubWait
<1>9. /\ u \in Subscription /\ u.pc = "waiting" /\ u.stream = s.stream /\ u.offset = s.offset
      /\ u.next = s.next
  BY <1>2, <1>6, <1>7, ZenonT(40) DEF Subscription
<1>10. SubOK(streams, u, told[id])
  BY <1>2, <1>4, <1>9 DEF SubOK, Upto
<1> QED
  BY <1>2, <1>4, <1>8, <1>9, <1>10, OneSub, Zenon

LEMMA SubWakeStep ==
  ASSUME ServerInv, NEW id \in DOMAIN subs, SubWake(id)
  PROVE  ServerInv'
<1>1. PICK s : s = subs[id]
  OBVIOUS
<1>2. s \in Subscription /\ told[id] \in Seq(Nat) /\ SubOK(streams, s, told[id])
      /\ told = [told EXCEPT ![id] = told[id]]
  BY <1>1, OneSubKnown
<1>4. UNCHANGED <<headerStream, logStream, streams, feeds, loop, told>> /\ s.pc = "waiting"
  BY <1>1 DEF SubWake, streamFields, Sub
<1>5. CASE subs' = [subs EXCEPT ![id] = [subs[id] EXCEPT !.pc = "read", !.channel = 0]]
  <2>1. PICK u : u = [s EXCEPT !.pc = "read", !.channel = 0]
    BY Zenon
  <2>2. subs' = [subs EXCEPT ![id] = u]
    BY <1>1, <1>5, <2>1
  <2>3. /\ u \in Subscription /\ u.pc = "read" /\ u.stream = s.stream /\ u.offset = s.offset
    BY <1>2, <2>1, ZenonT(40) DEF Subscription
  <2>4. SubOK(streams, u, told[id])
    BY <1>2, <1>4, <2>3 DEF SubOK, Upto
  <2> QED
    BY <1>2, <1>4, <2>2, <2>3, <2>4, OneSub, Zenon
<1>6. CASE subs' = [subs EXCEPT ![id] = Ended(id, "done")]
  <2>1. PICK u : u = Ended(id, "done")
    BY Zenon
  <2>2. u \in Subscription /\ SubOK(streams, u, told[id])
    <3>1. Increasing(told[id])
      BY <1>2 DEF SubOK
    <3>2. u = [s EXCEPT !.pc = "done", !.stream = NoStream, !.offset = -1, !.next = 0,
                        !.channel = 0, !.cancelled = TRUE]
      BY <1>1, <2>1 DEF Ended
    <3> QED
      BY <1>2, <3>1, <3>2, EndedOK, Zenon
  <2> QED
    BY <1>2, <1>4, <1>6, <2>1, <2>2, OneSub, Zenon
<1> QED
  BY <1>5, <1>6 DEF SubWake

LEMMA SubWriteStep ==
  ASSUME ServerInv, NEW id \in DOMAIN subs, SubWrite(id)
  PROVE  ServerInv'
<1>1. PICK s : s = subs[id]
  OBVIOUS
<1>2. s \in Subscription /\ told[id] \in Seq(Nat) /\ SubOK(streams, s, told[id])
      /\ told = [told EXCEPT ![id] = told[id]]
  BY <1>1, OneSubKnown
<1>3. streams \in Seq(Seq(Nat)) /\ AllIncreasing(streams)
  BY DEF ServerInv, ServerTypeOK, StreamsOK
<1>4. UNCHANGED <<headerStream, logStream, streams, feeds, loop>> /\ s.pc = "write"
  BY <1>1, SMTT(30) DEF SubWrite, streamFields, Sub
<1>5. CASE /\ told' = [told EXCEPT ![id] = Append(told[id], streams[s.stream][s.next])]
           /\ subs' = [subs EXCEPT ![id] = AfterWrite(s)]
  <2>1. PICK u : u = AfterWrite(s)
    OBVIOUS
  <2>2. PICK v : v = Append(told[id], streams[s.stream][s.next])
    BY Zenon
  <2>3. u \in Subscription /\ v \in Seq(Nat) /\ SubOK(streams, u, v)
    BY <1>2, <1>3, <1>4, <2>1, <2>2, WriteOK, SMTT(30)
  <2> QED
    BY <1>4, <1>5, <2>1, <2>2, <2>3, OneSub, Zenon
<1>6. CASE subs' = [subs EXCEPT ![id] = Ended(id, "dropped")] /\ told' = told
  <2>1. PICK u : u = Ended(id, "dropped")
    BY Zenon
  <2>2. u \in Subscription /\ SubOK(streams, u, told[id])
    <3>1. Increasing(told[id])
      BY <1>2 DEF SubOK
    <3>2. u = [s EXCEPT !.pc = "dropped", !.stream = NoStream, !.offset = -1, !.next = 0,
                        !.channel = 0, !.cancelled = TRUE]
      BY <1>1, <2>1, SMTT(30) DEF Ended
    <3> QED
      BY <1>2, <3>1, <3>2, EndedOK, Zenon
  <2> QED
    BY <1>2, <1>4, <1>6, <2>1, <2>2, OneSub, Zenon
<1> QED
  BY <1>1, <1>5, <1>6, SMTT(30) DEF SubWrite, AfterWrite

\* Subscriptions stand when streams grow.
LEMMA SubsGrown ==
  ASSUME ServerTypeOK, SubsOK, streams' \in Seq(Seq(Nat)), Grown(streams, streams'),
         UNCHANGED <<subs, told>>
  PROVE  SubsOK'
<1>1. streams \in Seq(Seq(Nat)) /\ \A id \in DOMAIN subs : subs[id] \in Subscription
  BY DEF ServerTypeOK
<1> QED
  BY <1>1, GrownKeeps DEF SubsOK

\* A stream more, with nothing in it.
LEMMA StreamMade ==
  ASSUME NEW S \in Seq(Seq(Nat)), NEW T, T = Append(S, <<>>), AllIncreasing(S)
  PROVE  /\ T \in Seq(Seq(Nat)) /\ Len(T) = Len(S) + 1 /\ Grown(S, T)
         /\ \A k \in 1 .. Len(S) : T[k] = S[k]
         /\ T[Len(S) + 1] = <<>> /\ AllIncreasing(T)
<1>1. PICK n \in Nat : n = Len(S) /\ DOMAIN S = 1 .. n
  OBVIOUS
<1>2. <<>> \in Seq(Nat) /\ DOMAIN <<>> = {}
  OBVIOUS
<1>3. /\ T \in Seq(Seq(Nat)) /\ Len(T) = n + 1 /\ DOMAIN T = 1 .. n + 1
      /\ T[n + 1] = <<>> /\ \A k \in 1 .. n : T[k] = S[k]
  BY <1>1, <1>2
<1>4. \A k \in 1 .. n : Len(S[k]) \in Nat
  BY <1>1, SMTT(30)
<1>5. Grown(S, T)
  BY <1>1, <1>3, <1>4 DEF Grown, Begins
<1>6. \A k \in 1 .. n + 1 : k \in 1 .. n \/ k = n + 1
  BY <1>1
<1>7. Increasing(<<>>)
  BY <1>2, SMTT(30) DEF Increasing
<1>8. AllIncreasing(T)
  BY <1>1, <1>3, <1>6, <1>7, SMTT(30) DEF AllIncreasing
<1> QED
  BY <1>1, <1>3, <1>5, <1>8

\* An event more at the end of a stream, greater than those before it.
Below(a, x) == \A j \in DOMAIN a : a[j] < x

LEMMA AppendHigher ==
  ASSUME NEW a \in Seq(Nat), Increasing(a), NEW x \in Nat, Below(a, x)
  PROVE  /\ Append(a, x) \in Seq(Nat) /\ Len(Append(a, x)) = Len(a) + 1
         /\ Increasing(Append(a, x)) /\ Begins(a, Append(a, x))
         /\ \A j \in DOMAIN Append(a, x) : Append(a, x)[j] <= x
<1>1. PICK m \in Nat : m = Len(a) /\ DOMAIN a = 1 .. m
  OBVIOUS
<1>2. PICK b : b = Append(a, x)
  BY Zenon
<1>3. /\ b \in Seq(Nat) /\ Len(b) = m + 1 /\ DOMAIN b = 1 .. m + 1 /\ b[m + 1] = x
      /\ \A j \in 1 .. m : b[j] = a[j] /\ a[j] \in Nat
  BY <1>1, <1>2
<1>4. \A j \in 1 .. m : b[j] < x
  BY <1>1, <1>3 DEF Below
<1>5. \A j \in 1 .. m + 1 : j \in 1 .. m \/ j = m + 1
  BY <1>1
<1>6. \A j \in 1 .. m + 1 : b[j] <= x
  <2>1. \A j \in 1 .. m : b[j] <= x
    BY <1>3, <1>4
  <2>2. b[m + 1] <= x
    BY <1>3
  <2> QED
    BY <1>5, <2>1, <2>2
<1>7. Increasing(b)
  <2> SUFFICES ASSUME NEW j \in 1 .. m + 1, NEW k \in 1 .. m + 1, j < k
               PROVE  b[j] < b[k]
    BY <1>3 DEF Increasing
  <2>1. j \in 1 .. m
    BY <1>1
  <2>2. CASE k = m + 1
    BY <1>3, <1>4, <2>1, <2>2
  <2>3. CASE k \in 1 .. m
    BY <1>1, <1>3, <2>1, <2>3, Zenon DEF Increasing
  <2> QED
    BY <1>5, <2>2, <2>3
<1>8. Begins(a, b)
  BY <1>1, <1>3 DEF Begins
<1> QED
  BY <1>1, <1>2, <1>3, <1>6, <1>7, <1>8

\* Stream h goes on as a.
Put(S, h, a) == [S EXCEPT ![h] = a]

LEMMA StreamGoesOn ==
  ASSUME NEW S \in Seq(Seq(Nat)), AllIncreasing(S), NEW h \in 1 .. Len(S),
         NEW a \in Seq(Nat), Increasing(a), Begins(S[h], a)
  PROVE  /\ Put(S, h, a) \in Seq(Seq(Nat)) /\ Len(Put(S, h, a)) = Len(S)
         /\ Grown(S, Put(S, h, a)) /\ AllIncreasing(Put(S, h, a)) /\ Put(S, h, a)[h] = a
         /\ \A k \in 1 .. Len(S) : k # h => Put(S, h, a)[k] = S[k]
<1>1. PICK n \in Nat : n = Len(S) /\ DOMAIN S = 1 .. n /\ h \in 1 .. n
  OBVIOUS
<1>2. PICK T : T = Put(S, h, a)
  OBVIOUS
<1>3. /\ T \in Seq(Seq(Nat)) /\ Len(T) = n /\ DOMAIN T = 1 .. n /\ T[h] = a
      /\ \A k \in 1 .. n : k # h => T[k] = S[k]
  BY <1>1, <1>2 DEF Put
<1>4. Begins(S[h], T[h])
  BY <1>3
<1>5. \A k \in 1 .. n : k # h => Begins(S[k], T[k])
  <2> SUFFICES ASSUME NEW k \in 1 .. n, k # h
               PROVE  Begins(S[k], T[k])
    OBVIOUS
  <2>1. T[k] = S[k]
    BY <1>3
  <2>2. Len(S[k]) \in Nat
    BY <1>1, SMTT(30)
  <2> QED
    BY <2>1, <2>2 DEF Begins
<1>6. Grown(S, T)
  <2>1. \A k \in 1 .. n : Begins(S[k], T[k])
    BY <1>4, <1>5
  <2> QED
    BY <1>1, <1>3, <2>1 DEF Grown
<1>7. AllIncreasing(T)
  BY <1>1, <1>3, Zenon DEF AllIncreasing
<1> QED
  BY <1>1, <1>2, <1>3, <1>6, <1>7

\* Steps that make a stream.
LEMMA InitHeaderStreamStep ==
  ASSUME ServerInv, NEW c \in Conns, InitHeaderStream(c)
  PROVE  ServerInv'
<1>1. ServerTypeOK /\ StreamsOK /\ SubsOK
  BY DEF ServerInv
<1>2. PICK n \in Nat : /\ n = Len(streams) /\ n >= 1 /\ DOMAIN streams = 1 .. n
                       /\ logStream \in 0 .. n /\ streams \in Seq(Seq(Nat))
  BY <1>1 DEF ServerTypeOK
<1>3. /\ streams' = Append(streams, <<>>) /\ headerStream' = Len(streams')
      /\ loop' = [loop EXCEPT ![c] = "log"] /\ UNCHANGED <<logStream, feeds, subs, told>>
  BY DEF InitHeaderStream, Goes
<1>4. /\ streams' \in Seq(Seq(Nat)) /\ Len(streams') = n + 1 /\ Grown(streams, streams')
      /\ \A k \in 1 .. n : streams'[k] = streams[k]
      /\ streams'[n + 1] = <<>> /\ AllIncreasing(streams')
  <2>1. AllIncreasing(streams)
    BY <1>1 DEF StreamsOK
  <2> QED
    BY <1>2, <1>3, <2>1, StreamMade, Zenon
<1>5. headerStream' = n + 1 /\ logStream' \in 0 .. n
  BY <1>2, <1>3, <1>4, SMTT(30)
<1>6. ServerTypeOK'
  BY <1>1, <1>2, <1>3, <1>4, <1>5, SMTT(30) DEF ServerTypeOK, Places
<1>7. StreamsOK'
  <2>1. FedUpTo(streams'[headerStream'], feeds', "newHeads")
    BY <1>4, <1>5, SMTT(30) DEF FedUpTo
  <2>2. logStream' # NoStream => FedUpTo(streams'[logStream'], feeds', "logs")
    <3>1. logStream # NoStream => streams'[logStream] = streams[logStream]
      BY <1>2, <1>4, SMTT(30) DEF NoStream
    <3> QED
      BY <1>1, <1>3, <3>1, Zenon DEF StreamsOK
  <2>3. Counted(streams'[pendingTxStream])
    <3>1. 1 \in 1 .. n
      BY <1>2
    <3> QED
      BY <1>1, <1>4, <3>1, Zenon DEF StreamsOK, pendingTxStream
  <2>4. /\ headerStream' # pendingTxStream /\ logStream' # pendingTxStream
        /\ headerStream' # logStream' /\ headerStream' # NoStream
    BY <1>1, <1>2, <1>3, <1>5 DEF StreamsOK, pendingTxStream, NoStream
  <2>5. LoopsOK'
    <3>1. \A d \in Conns : loop'[d] = loop[d] \/ loop'[d] = "log"
      BY <1>1, <1>3 DEF ServerTypeOK
    <3>2. LoopsOK
      BY <1>1 DEF StreamsOK
    <3> QED
      BY <1>3, <2>4, <3>1, <3>2, LoopsKeep, Zenon DEF MadeFor
  <2>6. feeds' # <<>> => logStream' # NoStream
    BY <1>1, <1>3, SMTT(30) DEF StreamsOK
  <2> QED
    BY <1>4, <2>1, <2>2, <2>3, <2>4, <2>5, <2>6, ZenonT(40) DEF StreamsOK
<1>8. SubsOK'
  BY <1>1, <1>3, <1>4, SubsGrown
<1> QED
  BY <1>6, <1>7, <1>8 DEF ServerInv

LEMMA InitLogStreamStep ==
  ASSUME ServerInv, NEW c \in Conns, InitLogStream(c)
  PROVE  ServerInv'
<1>1. ServerTypeOK /\ StreamsOK /\ SubsOK
  BY DEF ServerInv
<1>2. PICK n \in Nat : /\ n = Len(streams) /\ n >= 1 /\ DOMAIN streams = 1 .. n
                       /\ headerStream \in 0 .. n /\ streams \in Seq(Seq(Nat))
  BY <1>1 DEF ServerTypeOK
<1>3. /\ streams' = Append(streams, <<>>) /\ logStream' = Len(streams') /\ loop[c] = "log"
      /\ loop' = [loop EXCEPT ![c] = "cometBlocks"] /\ UNCHANGED <<headerStream, feeds, subs, told>>
  BY SMTT(30) DEF InitLogStream, Goes
<1>4. /\ streams' \in Seq(Seq(Nat)) /\ Len(streams') = n + 1 /\ Grown(streams, streams')
      /\ \A k \in 1 .. n : streams'[k] = streams[k]
      /\ streams'[n + 1] = <<>> /\ AllIncreasing(streams')
  <2>1. AllIncreasing(streams)
    BY <1>1 DEF StreamsOK
  <2> QED
    BY <1>2, <1>3, <2>1, StreamMade, ZenonT(40)
<1>5. logStream' = n + 1 /\ headerStream' \in 0 .. n
  BY <1>2, <1>3, <1>4, SMTT(30)
<1>6. ServerTypeOK'
  BY <1>1, <1>2, <1>3, <1>4, <1>5, SMTT(30) DEF ServerTypeOK, Places
<1>7. StreamsOK'
  <2>1. FedUpTo(streams'[logStream'], feeds', "logs")
    BY <1>4, <1>5, SMTT(30) DEF FedUpTo
  <2>2. headerStream' # NoStream => FedUpTo(streams'[headerStream'], feeds', "newHeads")
    <3>1. headerStream # NoStream => streams'[headerStream] = streams[headerStream]
      BY <1>2, <1>4 DEF NoStream
    <3> QED
      BY <1>1, <1>3, <3>1, ZenonT(40) DEF StreamsOK
  <2>3. Counted(streams'[pendingTxStream])
    <3>1. 1 \in 1 .. n
      BY <1>2
    <3> QED
      BY <1>1, <1>4, <3>1, Zenon DEF StreamsOK, pendingTxStream
  <2>4. headerStream' # NoStream /\ LoopsOK
    BY <1>1, <1>3 DEF StreamsOK, LoopsOK, SettingUp
  <2>5. /\ headerStream' # pendingTxStream /\ logStream' # pendingTxStream
        /\ headerStream' # logStream' /\ logStream' # NoStream
    BY <1>1, <1>2, <1>3, <1>5 DEF StreamsOK, pendingTxStream, NoStream
  <2>6. LoopsOK'
    <3>1. \A d \in Conns : loop'[d] = loop[d] \/ loop'[d] = "cometBlocks"
      BY <1>1, <1>3, SMTT(30) DEF ServerTypeOK
    <3> QED
      BY <1>3, <2>4, <2>5, <3>1, LoopsKeep, Zenon DEF MadeFor
  <2> QED
    BY <1>4, <2>1, <2>2, <2>3, <2>4, <2>5, <2>6, Zenon DEF StreamsOK
<1>8. SubsOK'
  BY <1>1, <1>3, <1>4, SubsGrown
<1> QED
  BY <1>6, <1>7, <1>8 DEF ServerInv

\* The first subscription to CometBFT, of which there is one at a time.
LEMMA InitSubscribeBlocksStep ==
  ASSUME ServerInv, NEW c \in Conns, InitSubscribeBlocks(c)
  PROVE  ServerInv'
<1>1. ServerTypeOK /\ StreamsOK /\ SubsOK
  BY DEF ServerInv
<1>2. /\ loop[c] = "cometBlocks" /\ UNCHANGED <<headerStream, logStream, streams, feeds, told>>
      /\ loop \in [Conns -> Places]
  BY <1>1, SMTT(30) DEF InitSubscribeBlocks, ServerTypeOK, streamFields
<1>3. CASE Leaves(c)
  <2>1. loop' = [loop EXCEPT ![c] = "done"] /\ \E ids : subs' = Cancelled(ids)
    BY <1>3 DEF Leaves, Goes
  <2>2. loop' \in [Conns -> Places] /\ \A d \in Conns : loop'[d] \in SettingUp => loop[d] = loop'[d]
    BY <1>2, <2>1 DEF Places, SettingUp
  <2> QED
    BY <1>2, <2>1, <2>2, LoopOnly
<1>4. CASE ~AlreadySubscribed /\ Goes(c, "cometLogs") /\ UNCHANGED subs
  <2>1. /\ feeds = <<>> /\ \A d \in Conns : loop[d] # "cometLogs"
        /\ loop' = [loop EXCEPT ![c] = "cometLogs"]
    BY <1>4 DEF AlreadySubscribed, Goes
  <2>2. loop' \in [Conns -> Places] /\ \A d \in Conns : loop'[d] = IF d = c THEN "cometLogs" ELSE loop[d]
    BY <1>2, <2>1 DEF Places
  <2>3. ServerTypeOK'
    BY <1>1, <1>2, <1>4, <2>2, ZenonT(40) DEF ServerTypeOK
  <2>4. headerStream # NoStream /\ logStream # NoStream
    BY <1>1, <1>2, SMTT(30) DEF StreamsOK, LoopsOK, SettingUp
  <2>5. LoopsOK'
    BY <1>2, <2>1, <2>2, <2>4 DEF LoopsOK
  <2>6. StreamsOK'
    BY <1>1, <1>2, <2>5, ZenonT(40) DEF StreamsOK
  <2>7. SubsOK'
    BY <1>1, <1>2, <1>4, Zenon DEF SubsOK
  <2> QED
    BY <2>3, <2>6, <2>7 DEF ServerInv
<1> QED
  BY <1>3, <1>4 DEF InitSubscribeBlocks

\* The second subscription to CometBFT: then the streams are fed.
LEMMA InitSubscribeLogsStep ==
  ASSUME ServerInv, NEW c \in Conns, InitSubscribeLogs(c)
  PROVE  ServerInv'
<1>1. ServerTypeOK /\ StreamsOK /\ SubsOK
  BY DEF ServerInv
<1>2. /\ loop[c] = "cometLogs" /\ UNCHANGED <<headerStream, logStream, streams, told>>
      /\ loop \in [Conns -> Places]
  BY <1>1, SMTT(30) DEF InitSubscribeLogs, ServerTypeOK
<1>3. CASE Leaves(c) /\ UNCHANGED feeds
  <2>1. loop' = [loop EXCEPT ![c] = "done"] /\ \E ids : subs' = Cancelled(ids)
    BY <1>3 DEF Leaves, Goes
  <2>2. /\ loop' \in [Conns -> Places]
        /\ \A d \in Conns : loop'[d] \in SettingUp => loop[d] = loop'[d]
    BY <1>2, <2>1 DEF Places, SettingUp
  <2> QED
    BY <1>2, <1>3, <2>1, <2>2, LoopOnly
<1>4. CASE /\ feeds' = Append(feeds, [newHeads |-> 0, logs |-> 0])
           /\ Goes(c, "go") /\ UNCHANGED subs
  <2>1. feeds = <<>>
    BY <1>1, <1>2, Zenon DEF StreamsOK, LoopsOK
  <2>2. PICK r \in [newHeads : Nat, logs : Nat] : r = [newHeads |-> 0, logs |-> 0]
    BY ZenonT(40)
  <2>3. feeds' = Append(<<>>, r)
    BY <1>4, <2>1, <2>2
  <2>4. feeds' \in Seq([newHeads : Nat, logs : Nat]) /\ Len(feeds') <= 1
    BY <2>2, <2>3
  <2>5. /\ loop' \in [Conns -> Places]
        /\ \A d \in Conns : loop'[d] \in SettingUp => loop[d] = loop'[d]
    BY <1>2, <1>4, SMTT(30) DEF Goes, Places, SettingUp
  <2>6. ServerTypeOK'
    BY <1>1, <1>2, <1>4, <2>4, <2>5 DEF ServerTypeOK
  <2>7. /\ headerStream # NoStream /\ FedUpTo(streams[headerStream], feeds, "newHeads")
        /\ logStream # NoStream /\ FedUpTo(streams[logStream], feeds, "logs")
    BY <1>1, <1>2 DEF StreamsOK, LoopsOK, SettingUp
  <2>8. DOMAIN streams[headerStream] = {} /\ DOMAIN streams[logStream] = {}
    BY <2>1, <2>7 DEF FedUpTo
  <2>9. FedUpTo(streams'[headerStream'], feeds', "newHeads") /\ FedUpTo(streams'[logStream'], feeds', "logs")
    BY <1>2, <2>8, SMTT(30) DEF FedUpTo
  <2>10. StreamsOK'
    <3>1. LoopsOK /\ \A d \in Conns : d # c => loop[d] # "cometLogs"
      BY <1>1, <1>2, Zenon DEF StreamsOK, LoopsOK
    <3>2. loop' = [loop EXCEPT ![c] = "go"]
      BY <1>4 DEF Goes
    <3>3. \A d \in Conns : loop'[d] # "cometLogs"
      BY <1>2, <3>1, <3>2
    <3>4. LoopsOK'
      BY <1>2, <2>5, <3>1, <3>3, LoopsKeep, ZenonT(40)
    <3> QED
      BY <1>1, <1>2, <2>7, <2>9, <3>4, ZenonT(40) DEF StreamsOK
  <2>11. SubsOK'
    BY <1>1, <1>2, <1>4 DEF SubsOK
  <2> QED
    BY <2>6, <2>10, <2>11 DEF ServerInv
<1> QED
  BY <1>3, <1>4 DEF InitSubscribeLogs

\* A new subscription has been notified of nothing.
LEMMA GoSubscribeStep ==
  ASSUME ServerInv, NEW c \in Conns, GoSubscribe(c)
  PROVE  ServerInv'
<1>1. ServerTypeOK /\ StreamsOK /\ SubsOK
  BY DEF ServerInv
<1>2. PICK h : h = StreamOf(topic[c])
  OBVIOUS
<1>3. h \in 0 .. Len(streams) /\ h \in Nat
  BY <1>1, <1>2 DEF ServerTypeOK, StreamOf, pendingTxStream
<1>4. PICK u : u = [pc |-> "read", conn |-> c, stream |-> h, offset |-> -1,
                    next |-> 0, channel |-> 0, cancelled |-> FALSE]
  BY Zenon
<1>5. u \in Subscription /\ u.pc = "read" /\ u.stream = h /\ u.offset = -1
  BY <1>3, <1>4, SMTT(30) DEF Subscription
<1>6. /\ subs' = Append(subs, u) /\ told' = Append(told, <<>>)
      /\ loop' = [loop EXCEPT ![c] = "reply"]
      /\ UNCHANGED <<headerStream, logStream, streams, feeds>>
  BY <1>2, <1>4 DEF GoSubscribe, Goes, streamFields
<1>7. PICK n \in Nat : /\ n = Len(subs) /\ n = Len(told) /\ subs \in Seq(Subscription)
                       /\ told \in Seq(Seq(Nat)) /\ DOMAIN subs = 1 .. n
  BY <1>1 DEF ServerTypeOK
<1>8. <<>> \in Seq(Nat) /\ DOMAIN <<>> = {}
  BY SMTT(30)
<1>9. /\ subs' \in Seq(Subscription) /\ Len(subs') = n + 1 /\ subs'[n + 1] = u
      /\ DOMAIN subs' = 1 .. n + 1 /\ \A id \in 1 .. n : subs'[id] = subs[id]
  BY <1>5, <1>6, <1>7
<1>10. /\ told' \in Seq(Seq(Nat)) /\ Len(told') = n + 1 /\ told'[n + 1] = <<>>
       /\ \A id \in 1 .. n : told'[id] = told[id]
  BY <1>6, <1>7, <1>8, SMTT(30)
<1>11. ServerTypeOK'
  BY <1>1, <1>6, <1>9, <1>10, SMTT(30) DEF ServerTypeOK, Places
<1>12. StreamsOK'
  <2>1. \A d \in Conns : loop'[d] \in SettingUp => loop[d] = loop'[d]
    BY <1>1, <1>6 DEF ServerTypeOK, SettingUp
  <2>2. LoopsOK'
    BY <1>1, <1>6, <2>1, LoopsKeep, ZenonT(40) DEF StreamsOK
  <2> QED
    BY <1>1, <1>6, <2>2, ZenonT(40) DEF StreamsOK
<1>13. SubOK(streams, u, <<>>)
  <2>1. Increasing(<<>>) /\ From(<<>>, streams[u.stream], Upto(u))
    BY <1>8 DEF Increasing, From
  <2>2. u.stream # NoStream => u.offset <= Len(streams[u.stream])
    <3> SUFFICES ASSUME u.stream # NoStream
                 PROVE  u.offset <= Len(streams[u.stream])
      OBVIOUS
    <3>1. h \in 1 .. Len(streams) /\ streams \in Seq(Seq(Nat))
      BY <1>1, <1>3, <1>5 DEF ServerTypeOK, NoStream
    <3>2. streams[h] \in Seq(Nat)
      BY <3>1
    <3>3. Len(streams[h]) \in Nat
      BY <3>2
    <3> QED
      BY <1>5, <3>3
  <2> QED
    BY <1>3, <1>5, <2>1, <2>2, SMTT(30) DEF SubOK
<1>14. SubsOK'
  <2> SUFFICES ASSUME NEW id \in 1 .. n + 1
               PROVE  SubOK(streams, subs'[id], told'[id])
    BY <1>6, <1>9, Zenon DEF SubsOK
  <2>1. CASE id = n + 1
    BY <1>9, <1>10, <1>13, <2>1
  <2>2. CASE id # n + 1
    <3>1. id \in 1 .. n
      BY <1>7, <2>2
    <3> QED
      BY <1>1, <1>7, <1>9, <1>10, <3>1, Zenon DEF SubsOK
  <2> QED
    BY <2>1, <2>2, SMTT(30)
<1> QED
  BY <1>11, <1>12, <1>14 DEF ServerInv

\* An element of a sequence.
LEMMA ElementOfSeq ==
  ASSUME NEW R, NEW s \in Seq(R), NEW k \in 1 .. Len(s)
  PROVE  s[k] \in R
OBVIOUS

\* The feed adds an event of its topic, to the stream the field names now.
LEMMA FeedAddsStep ==
  ASSUME ServerInv, NEW f \in DOMAIN feeds, NEW t \in {"newHeads", "logs"}, FeedAdds(f, t)
  PROVE  ServerInv'
<1>1. ServerTypeOK /\ StreamsOK /\ SubsOK
  BY DEF ServerInv
<1>2. f = 1 /\ Len(feeds) = 1 /\ feeds # <<>> /\ feeds[1] \in [newHeads : Nat, logs : Nat]
  <2>1. feeds \in Seq([newHeads : Nat, logs : Nat]) /\ Len(feeds) <= 1
    BY <1>1 DEF ServerTypeOK
  <2>2. PICK m \in Nat : m = Len(feeds) /\ DOMAIN feeds = 1 .. m
    BY <2>1
  <2>3. m = 1 /\ f = 1
    BY <2>1, <2>2
  <2>4. feeds # <<>>
    BY <2>2, <2>3
  <2>5. 1 \in 1 .. Len(feeds)
    BY <2>2, <2>3
  <2>6. feeds[1] \in [newHeads : Nat, logs : Nat]
    BY <2>1, <2>5, ElementOfSeq, Zenon
  <2> QED
    BY <2>2, <2>3, <2>4, <2>6
<1>3. PICK h : h = StreamOf(t)
  OBVIOUS
<1>4. PICK n \in Nat : n = Len(streams) /\ streams \in Seq(Seq(Nat)) /\ DOMAIN streams = 1 .. n
  BY <1>1 DEF ServerTypeOK
<1>5. /\ headerStream \in 1 .. n /\ logStream \in 1 .. n /\ headerStream # logStream
      /\ headerStream # 1 /\ logStream # 1
  BY <1>1, <1>2, <1>4 DEF ServerTypeOK, StreamsOK, NoStream, pendingTxStream
<1>6. (t = "newHeads" /\ h = headerStream) \/ (t = "logs" /\ h = logStream)
  BY <1>3 DEF StreamOf
<1>7. h \in 1 .. n /\ h # 1
  BY <1>5, <1>6
<1>8. PICK x \in Nat : x = feeds[1][t] + 1
  BY <1>2
<1>9. streams[h] \in Seq(Nat) /\ AllIncreasing(streams) /\ Increasing(streams[h])
  <2>1. h \in 1 .. Len(streams) /\ streams \in Seq(Seq(Nat)) /\ h \in DOMAIN streams
    BY <1>4, <1>7
  <2>2. streams[h] \in Seq(Nat)
    BY <2>1, ElementOfSeq
  <2>3. AllIncreasing(streams)
    BY <1>1, SMTT(30) DEF StreamsOK
  <2> QED
    BY <2>1, <2>2, <2>3 DEF AllIncreasing
<1>10. Below(streams[h], x)
  <2>1. FedUpTo(streams[h], feeds, t)
    BY <1>1, <1>2, <1>6, SMTT(30) DEF StreamsOK
  <2>2. \A j \in DOMAIN streams[h] : streams[h][j] \in Nat
    BY <1>9
  <2>3. feeds[1][t] \in Nat
    BY <1>2
  <2> QED
    BY <1>8, <2>1, <2>2, <2>3, SMTT(30) DEF FedUpTo, Below
<1>11. PICK a : a = Append(streams[h], x)
  BY Zenon
<1>12. /\ streams' = Put(streams, h, a) /\ UNCHANGED <<headerStream, logStream, loop, subs, told>>
  BY <1>2, <1>3, <1>8, <1>11, SMTT(30) DEF FeedAdds, Put
<1>13. /\ streams' \in Seq(Seq(Nat)) /\ Len(streams') = n /\ Grown(streams, streams')
       /\ AllIncreasing(streams') /\ streams'[h] = a /\ \A j \in DOMAIN a : a[j] <= x
       /\ \A k \in 1 .. n : k # h => streams'[k] = streams[k]
  <2>1. /\ a \in Seq(Nat) /\ Increasing(a) /\ Begins(streams[h], a)
        /\ \A j \in DOMAIN a : a[j] <= x
    BY <1>9, <1>10, <1>11, AppendHigher
  <2>2. streams \in Seq(Seq(Nat)) /\ h \in 1 .. Len(streams)
    BY <1>4, <1>7
  <2> QED
    <3>1. PICK T : T = Put(streams, h, a)
      OBVIOUS
    <3>2. /\ T \in Seq(Seq(Nat)) /\ Len(T) = Len(streams) /\ Grown(streams, T)
          /\ AllIncreasing(T) /\ T[h] = a
          /\ \A k \in 1 .. Len(streams) : k # h => T[k] = streams[k]
      BY <1>9, <2>1, <2>2, <3>1, StreamGoesOn, ZenonT(40)
    <3> QED
      BY <1>4, <1>12, <2>1, <3>1, <3>2
<1>14. PICK r : r = [feeds[1] EXCEPT ![t] = x]
  BY Zenon
<1>15. /\ r \in [newHeads : Nat, logs : Nat] /\ r[t] = x
       /\ \A o \in {"newHeads", "logs"} : o # t => r[o] = feeds[1][o]
  BY <1>2, <1>8, <1>14
<1>16. feeds' = [feeds EXCEPT ![1] = r]
  BY <1>2, <1>8, <1>14, SMTT(30) DEF FeedAdds
<1>17. feeds' \in Seq([newHeads : Nat, logs : Nat]) /\ Len(feeds') = 1 /\ feeds'[1] = r /\ feeds' # <<>>
  BY <1>1, <1>2, <1>15, <1>16, SMTT(30) DEF ServerTypeOK
<1>18. ServerTypeOK'
  <2>1. headerStream' \in 0 .. Len(streams') /\ logStream' \in 0 .. Len(streams') /\ Len(streams') >= 1
    <3>1. Len(streams') = n
      BY <1>13, Zenon
    <3>2. headerStream' = headerStream /\ logStream' = logStream
      BY <1>12
    <3>3. headerStream \in 0 .. n /\ logStream \in 0 .. n /\ n >= 1
      BY <1>5
    <3> QED
      BY <3>1, <3>2, <3>3, Zenon
  <2>2. Len(feeds') <= 1
    BY <1>17
  <2> QED
    BY <1>1, <1>12, <1>13, <1>17, <2>1, <2>2 DEF ServerTypeOK
<1>19. FedUpTo(streams'[headerStream'], feeds', "newHeads") /\ FedUpTo(streams'[logStream'], feeds', "logs")
  <2>1. FedUpTo(streams[headerStream], feeds, "newHeads") /\ FedUpTo(streams[logStream], feeds, "logs")
    BY <1>1, <1>2, SMTT(30) DEF StreamsOK
  <2>2. CASE t = "newHeads" /\ h = headerStream
    BY <1>5, <1>12, <1>13, <1>15, <1>17, <2>1, <2>2, Zenon DEF FedUpTo
  <2>3. CASE t = "logs" /\ h = logStream
    BY <1>5, <1>12, <1>13, <1>15, <1>17, <2>1, <2>3, ZenonT(40) DEF FedUpTo
  <2> QED
    BY <1>6, <2>2, <2>3
<1>20. StreamsOK'
  <2>1. 1 \in 1 .. n
    BY <1>4, <1>7, SMTT(30)
  <2>2. streams'[1] = streams[1]
    BY <1>7, <1>13, <2>1, SMTT(30)
  <2>3. LoopsOK /\ \A c \in Conns : loop[c] # "cometLogs"
    BY <1>1, <1>2, Zenon DEF StreamsOK, LoopsOK
  <2>4. LoopsOK'
    BY <1>12, <2>3, LoopsKeep, ZenonT(40)
  <2> QED
    BY <1>1, <1>2, <1>5, <1>12, <1>13, <1>19, <2>2, <2>4 DEF StreamsOK, pendingTxStream, NoStream
<1>21. SubsOK'
  BY <1>1, <1>12, <1>13, SubsGrown
<1> QED
  BY <1>18, <1>20, <1>21 DEF ServerInv

\* A pending transaction is added.
LEMMA ListenPendingTxStep ==
  ASSUME ServerInv, ListenPendingTx
  PROVE  ServerInv'
<1>1. ServerTypeOK /\ StreamsOK /\ SubsOK
  BY DEF ServerInv
<1>2. PICK n \in Nat : /\ n = Len(streams) /\ streams \in Seq(Seq(Nat)) /\ DOMAIN streams = 1 .. n
                       /\ n >= 1 /\ headerStream \in 0 .. n /\ logStream \in 0 .. n
  BY <1>1 DEF ServerTypeOK
<1>3. 1 \in 1 .. n
  BY <1>2
<1>4. streams[1] \in Seq(Nat)
  BY <1>2, <1>3
<1>5. PICK x \in Nat : x = Len(streams[1]) + 1
  BY <1>4
<1>6. AllIncreasing(streams) /\ Increasing(streams[1])
  <2>1. AllIncreasing(streams)
    BY <1>1 DEF StreamsOK
  <2> QED
    BY <1>2, <1>3, <2>1, Zenon DEF AllIncreasing
<1>7. Below(streams[1], x)
  <2>1. \A j \in DOMAIN streams[1] : streams[1][j] \in Nat
    BY <1>4
  <2>2. Len(streams[1]) \in Nat
    BY <1>4
  <2>3. Counted(streams[1])
    BY <1>1 DEF StreamsOK, pendingTxStream
  <2> QED
    BY <1>5, <2>1, <2>2, <2>3 DEF Counted, Below
<1>8. PICK a : a = Append(streams[1], x)
  BY Zenon
<1>9. streams' = Put(streams, 1, a) /\ UNCHANGED <<headerStream, logStream, feeds, loop, subs, told>>
  BY <1>5, <1>8, SMTT(30) DEF ListenPendingTx, pendingTxStream, Put
<1>10. /\ streams' \in Seq(Seq(Nat)) /\ Len(streams') = n /\ Grown(streams, streams')
       /\ AllIncreasing(streams') /\ Counted(streams'[1])
       /\ \A k \in 1 .. n : k # 1 => streams'[k] = streams[k]
  <2>1. /\ a \in Seq(Nat) /\ Increasing(a) /\ Begins(streams[1], a) /\ Len(a) = x
        /\ \A j \in DOMAIN a : a[j] <= x
    BY <1>4, <1>5, <1>6, <1>7, <1>8, AppendHigher
  <2>2. streams \in Seq(Seq(Nat)) /\ 1 \in 1 .. Len(streams)
    BY <1>2, <1>3, SMTT(30)
  <2>3. /\ streams' \in Seq(Seq(Nat)) /\ Len(streams') = n /\ Grown(streams, streams')
        /\ AllIncreasing(streams') /\ streams'[1] = a
        /\ \A k \in 1 .. n : k # 1 => streams'[k] = streams[k]
    <3>1. PICK T : T = Put(streams, 1, a)
      OBVIOUS
    <3>2. /\ T \in Seq(Seq(Nat)) /\ Len(T) = Len(streams) /\ Grown(streams, T)
          /\ AllIncreasing(T) /\ T[1] = a
          /\ \A k \in 1 .. Len(streams) : k # 1 => T[k] = streams[k]
      BY <1>6, <2>1, <2>2, <3>1, StreamGoesOn, ZenonT(40)
    <3> QED
      BY <1>2, <1>9, <3>1, <3>2
  <2> QED
    BY <2>1, <2>3, SMTT(30) DEF Counted
<1>11. ServerTypeOK'
  BY <1>1, <1>2, <1>9, <1>10, SMTT(30) DEF ServerTypeOK
<1>12. StreamsOK'
  <2>1. /\ headerStream # NoStream => streams'[headerStream] = streams[headerStream]
        /\ logStream # NoStream => streams'[logStream] = streams[logStream]
    BY <1>1, <1>2, <1>10, SMTT(30) DEF StreamsOK, NoStream, pendingTxStream
  <2>2. LoopsOK'
    BY <1>1, <1>9, ZenonT(40) DEF StreamsOK, LoopsOK
  <2> QED
    BY <1>1, <1>9, <1>10, <2>1, <2>2, SMTT(30) DEF StreamsOK, pendingTxStream
<1>13. SubsOK'
  BY <1>1, <1>9, <1>10, SubsGrown, SMTT(30)
<1> QED
  BY <1>11, <1>12, <1>13 DEF ServerInv

\* The steps of the read loop that leave the streams alone.
LEMMA ReadLoopStep ==
  ASSUME ServerInv, NEW c \in Conns,
         \/ PeerLost(c) \/ CloseReceived(c) \/ ReadFails(c) \/ Reply(c) \/ InitCheck(c)
         \/ \E t \in Topics : EthSubscribe(c, t)
         \/ \E id \in SubIDs : EthUnsubscribe(c, id)
  PROVE  ServerInv'
<1>1. loop \in [Conns -> Places]
  BY SMTT(30) DEF ServerInv, ServerTypeOK
<1>2. UNCHANGED <<headerStream, logStream, streams, feeds, told>>
  BY ZenonT(40) DEF PeerLost, CloseReceived, ReadFails, Reply, InitCheck, EthSubscribe, EthUnsubscribe, streamFields
<1>3. subs' = subs \/ (\E ids : subs' = Cancelled(ids))
  BY ZenonT(40) DEF PeerLost, CloseReceived, ReadFails, Reply, InitCheck, EthSubscribe, EthUnsubscribe, Leaves
<1>4. loop' = loop \/ \E label \in Places \ SettingUp : loop' = [loop EXCEPT ![c] = label]
  <2>0. CASE CloseReceived(c)
    BY <2>0, Zenon DEF CloseReceived, Goes, Places, SettingUp
  <2>1. CASE PeerLost(c)
    BY <2>1, ZenonT(40) DEF PeerLost
  <2>2. CASE ReadFails(c) \/ Reply(c)
    BY <2>2, SMTT(30) DEF ReadFails, Reply, Leaves, Goes, Places, SettingUp
  <2>3. CASE InitCheck(c)
    BY <2>3, Zenon DEF InitCheck, Goes, Places, SettingUp
  <2>4. CASE \E t \in Topics : EthSubscribe(c, t)
    BY <2>4, Zenon DEF EthSubscribe, Goes, Places, SettingUp
  <2>5. CASE \E id \in SubIDs : EthUnsubscribe(c, id)
    BY <2>5, ZenonT(40) DEF EthUnsubscribe, Goes, Places, SettingUp
  <2> QED
    BY <2>0, <2>1, <2>2, <2>3, <2>4, <2>5
<1>5. /\ loop' \in [Conns -> Places]
      /\ \A d \in Conns : loop'[d] \in SettingUp => loop[d] = loop'[d]
  <2>1. CASE loop' = loop
    BY <1>1, <2>1
  <2>2. CASE \E label \in Places \ SettingUp : loop' = [loop EXCEPT ![c] = label]
    BY <1>1, <2>2
  <2> QED
    BY <1>4, <2>1, <2>2, ZenonT(40)
<1> QED
  BY <1>2, <1>3, <1>5, LoopOnly

\* The invariant of the websocket server: the read loops may set the streams up side
\* by side, yet one feed fills the streams that the fields name, in order.
THEOREM ServerInvariant == ServerSpec => []ServerInv
<1>1. NewRPCStreams => ServerInv
  <2> SUFFICES ASSUME NewRPCStreams
               PROVE  ServerInv
    OBVIOUS
  <2>1. /\ headerStream = 0 /\ logStream = 0 /\ streams = <<<<>>>> /\ feeds = <<>>
        /\ loop = [c \in Conns |-> "read"] /\ subs = <<>> /\ told = <<>>
    BY DEF NewRPCStreams, NoStream
  <2>2. <<>> \in Seq(Nat) /\ DOMAIN <<>> = {}
    OBVIOUS
  <2>3. streams \in Seq(Seq(Nat)) /\ Len(streams) = 1 /\ DOMAIN streams = {1} /\ streams[1] = <<>>
    BY <2>1, <2>2
  <2>4. ServerTypeOK
    BY <2>1, <2>3, SMTT(30) DEF ServerTypeOK, Places
  <2>5. StreamsOK
    <3>1. LoopsOK
      BY <2>1 DEF LoopsOK, SettingUp
    <3> QED
      BY <2>1, <2>2, <2>3, <3>1 DEF StreamsOK, NoStream, pendingTxStream, Increasing, AllIncreasing, Counted
  <2>6. SubsOK
    BY <2>1, <2>2 DEF SubsOK
  <2> QED
    BY <2>4, <2>5, <2>6 DEF ServerInv
<1>2. ServerInv /\ [ServerNext]_serverVars => ServerInv'
  <2> SUFFICES ASSUME ServerInv, [ServerNext]_serverVars
               PROVE  ServerInv'
    OBVIOUS
  <2>1. ASSUME NEW c \in Conns,
               \/ PeerLost(c) \/ CloseReceived(c) \/ ReadFails(c) \/ Reply(c) \/ InitCheck(c)
               \/ \E t \in Topics : EthSubscribe(c, t)
               \/ \E id \in SubIDs : EthUnsubscribe(c, id)
        PROVE  ServerInv'
    BY <2>1, ReadLoopStep
  <2>2. ASSUME NEW c \in Conns, InitHeaderStream(c)
        PROVE  ServerInv'
    BY <2>2, InitHeaderStreamStep
  <2>3. ASSUME NEW c \in Conns, InitLogStream(c)
        PROVE  ServerInv'
    BY <2>3, InitLogStreamStep
  <2>4. ASSUME NEW c \in Conns, InitSubscribeBlocks(c) \/ InitSubscribeLogs(c)
        PROVE  ServerInv'
    BY <2>4, InitSubscribeBlocksStep, InitSubscribeLogsStep
  <2>5. ASSUME NEW c \in Conns, GoSubscribe(c)
        PROVE  ServerInv'
    BY <2>5, GoSubscribeStep
  <2>6. ASSUME NEW id \in SubIDs, SubStep(id)
        PROVE  ServerInv'
    BY <2>6, SubReadStep, SubWaitStep, SubWakeStep, SubWriteStep, Zenon DEF SubStep, SubIDs
  <2>7. ASSUME NEW f \in DOMAIN feeds, NEW t \in {"newHeads", "logs"}, FeedAdds(f, t)
        PROVE  ServerInv'
    BY <2>7, FeedAddsStep
  <2>8. CASE ListenPendingTx
    BY <2>8, ListenPendingTxStep, SMTT(30)
  <2>9. CASE UNCHANGED serverVars
    BY <2>9, ZenonT(40) DEF serverVars, ServerInv, ServerTypeOK, StreamsOK, LoopsOK, SubsOK
  <2> QED
    BY <2>1, <2>2, <2>3, <2>4, <2>5, <2>6, <2>7, <2>8, <2>9, ZenonT(40) DEF ServerNext, LoopStep
<1> QED
  BY <1>1, <1>2, PTL DEF ServerSpec

\* No subscription is notified of an event twice, or of an earlier one after a later
\* one, however many connections ask for streams at the same time.
THEOREM SubscribersNotifiedOnce == ServerSpec => []NotifiedOnce
<1>1. ServerInv => NotifiedOnce
  BY Zenon DEF ServerInv, SubsOK, SubOK, Increasing, NotifiedOnce, SubIDs
<1> QED
  BY <1>1, ServerInvariant, PTL
=============================================================================
