------------------------------- MODULE ZmqClient -------------------------------
(***************************************************************************)
(* How the backend follows a Bitcoin-like chain: blocks and transactions   *)
(* are announced over ZMQ, which loses what nobody is subscribed to, and   *)
(* what is announced is asked for over RPC.  One transaction is of         *)
(* interest; its filter is set before anything is announced or rescanned.  *)
(* The node is what the client sees of it: a tree of blocks, each with its *)
(* height and its chain, the tip, and the transaction in its mempool or in *)
(* blocks.                                                                 *)
(***************************************************************************)
EXTENDS Integers, Sequences, FiniteSets

CONSTANTS
  MaxBlocks,     \* bound: blocks that are mined
  MaxLost,       \* bound: announcements that ZMQ drops and queries that fail
  MaxRestart     \* bound: crashes of the backend

ASSUME ZmqAssumption ==
  MaxBlocks \in Nat \ {0} /\ MaxLost \in Nat /\ MaxRestart \in Nat

VARIABLES
  blocks,        \* the blocks mined, in that order; block 0 is known to all
  mined,         \* the blocks that include the transaction
  tip,           \* the node's best block
  client,        \* blockHeight and bestBlockHash; where it is in starting up
  blockMail,     \* announced blocks, and those being asked for with getBlock
  txMail,        \* announcements of the transaction not yet received
  queries,       \* getRawTransactionVerbose: asked, and the answers not yet taken
  utxo,          \* the transaction is in utxos
  dbTip,         \* chain tip in the database
  rescanAt,      \* next height of the rescan
  emitted,       \* history: heights of the block events, and transaction events
  trouble        \* history: announcements and answers lost, crashes, whether it matters

zmqVars == <<blocks, mined, tip, client, blockMail, txMail, queries, utxo, dbTip,
             rescanAt, emitted, trouble>>
Node == <<blocks, mined, tip>>

MaxMail == 2     \* bound: announcements of the transaction and queries under way
Blocks == 0..Len(blocks)

(* A block follows its parent, and its chain is itself and all before it.  *)
(* Blocks are numbered as they are mined.                                  *)
Height(b) == IF b = 0 THEN 0 ELSE blocks[b].height
Chain(b)  == IF b = 0 THEN {0} ELSE blocks[b].chain
Child(p)  == [parent |-> p, height |-> Height(p) + 1,
              chain |-> Chain(p) \union {Len(blocks) + 1}]

InChain(b) == Chain(b) \intersect mined # {}

ZmqInit ==
  /\ blocks = << >> /\ mined = {} /\ tip = 0
  /\ client = [height |-> 0, best |-> 0, at |-> "up"]
  /\ blockMail = [sent |-> {}, asked |-> {}] /\ txMail = 0
  /\ queries = [asked |-> 0, answers |-> {}] /\ utxo = FALSE
  /\ dbTip = 0 /\ rescanAt = 1
  /\ emitted = [from |-> 0, heights |-> << >>, tx |-> {}]
  /\ trouble = [lost |-> 0, restarts |-> 0, missed |-> FALSE]

-----------------------------------------------------------------------------
(* The node.  A new tip is announced; the transaction is announced when it *)
(* enters the mempool and when a block with it is connected or undone.     *)
Subscribed == client.at \in {"rescan", "up"}

Room == txMail + queries.asked < MaxMail

Announce(announced, tx) ==
  /\ blockMail' = IF Subscribed THEN [blockMail EXCEPT !.sent = @ \union announced] ELSE blockMail
  /\ txMail' = IF Subscribed /\ tx THEN txMail + 1 ELSE txMail
  /\ trouble' = [trouble EXCEPT !.missed = @ \/ (tx /\ (client.at = "connect" \/
       (client.at = "down" /\ \E b \in Chain(tip)' \intersect mined' : Height(b)' < dbTip)))]
  /\ UNCHANGED <<client, queries, utxo, dbTip, rescanAt, emitted>>

Broadcast ==
  /\ mined = {} /\ Room /\ UNCHANGED Node /\ Announce({}, TRUE)

MineBlock(p, withTx) ==
  LET b == Len(blocks) + 1
      best == IF Height(p) + 1 > Height(tip) THEN b ELSE tip
      mined1 == IF withTx THEN mined \union {b} ELSE mined
      moves == best = b /\ ((Chain(p) \union {b}) \intersect mined1) # (Chain(tip) \intersect mined)
  IN
  /\ b <= MaxBlocks /\ Height(p) + 1 >= Height(tip) /\ Room
  /\ withTx => ~InChain(p)
  /\ blocks' = Append(blocks, Child(p)) /\ mined' = mined1 /\ tip' = best
  /\ Announce({best} \ {tip}, moves)

DropBlock(b) ==
  /\ b \in blockMail.sent /\ trouble.lost < MaxLost
  /\ blockMail' = [blockMail EXCEPT !.sent = @ \ {b}]
  /\ trouble' = [trouble EXCEPT !.lost = @ + 1]
  /\ UNCHANGED <<Node, client, txMail, queries, utxo, dbTip, rescanAt, emitted>>

DropTx ==
  /\ txMail > 0 /\ trouble.lost < MaxLost /\ txMail' = txMail - 1
  /\ trouble' = [trouble EXCEPT !.lost = @ + 1, !.missed = @ \/ InChain(tip)]
  /\ UNCHANGED <<Node, client, blockMail, queries, utxo, dbTip, rescanAt, emitted>>

-----------------------------------------------------------------------------
(* Block events for every height after the last one up to h; the chain tip *)
(* is saved with each.                                                     *)
\* faulty variant: the heights that were skipped are not made up for
HeightsToLast(h) == <<h>>
HeightsTo(h) == [i \in 1..(h - client.height) |-> client.height + i]

NewTip(h, b) ==
  /\ emitted' = [emitted EXCEPT !.heights = @ \o HeightsTo(h)]
  /\ client' = [client EXCEPT !.height = h, !.best = b]
  /\ dbTip' = h

(* A child of the best block is the next height at once; for any other the *)
(* node is asked.  Handlers that ask may be overtaken: two notifications   *)
(* have different locks, and a block not found is asked for again later.   *)
ReceiveBlock(b) ==
  /\ b \in blockMail.sent
  /\ IF blocks[b].parent = client.best
     THEN /\ NewTip(client.height + 1, b)
          /\ blockMail' = [blockMail EXCEPT !.sent = @ \ {b}]
     ELSE /\ blockMail' = [sent |-> blockMail.sent \ {b}, asked |-> blockMail.asked \union {b}]
          /\ UNCHANGED <<emitted, client, dbTip>>
  /\ UNCHANGED <<Node, txMail, queries, utxo, rescanAt, trouble>>

(* Only a higher block becomes the best one, the rest are orphans.         *)
AnswerBlock(b) ==
  /\ b \in blockMail.asked
  /\ blockMail' = [blockMail EXCEPT !.asked = @ \ {b}]
  /\ IF Height(b) > client.height THEN NewTip(Height(b), b) ELSE UNCHANGED <<emitted, client, dbTip>>
  /\ UNCHANGED <<Node, txMail, queries, utxo, rescanAt, trouble>>

-----------------------------------------------------------------------------
Emit(event) == emitted' = [emitted EXCEPT !.tx = @ \union {event}]

(* What was in the mempool is taken to be confirmed when it is announced   *)
(* once more.                                                              *)
ReceiveTx ==
  /\ txMail > 0 /\ txMail' = txMail - 1
  /\ IF utxo THEN utxo' = FALSE /\ Emit("confirmed") /\ UNCHANGED queries
     ELSE /\ queries' = [queries EXCEPT !.asked = @ + 1]
          /\ UNCHANGED <<utxo, emitted>>
  /\ UNCHANGED <<Node, client, blockMail, dbTip, rescanAt, trouble>>

NodeAnswers ==
  /\ queries.asked > 0
  /\ queries' = [asked |-> queries.asked - 1,
                 answers |-> queries.answers \union {InChain(tip)}]
  /\ UNCHANGED <<Node, client, blockMail, txMail, utxo, dbTip, rescanAt, emitted, trouble>>

(* A query that throws does so outside of the try: the announcement it was *)
(* for is gone.                                                            *)
QueryFails ==
  /\ queries.asked > 0 /\ trouble.lost < MaxLost
  /\ queries' = [queries EXCEPT !.asked = @ - 1]
  /\ trouble' = [trouble EXCEPT !.lost = @ + 1, !.missed = @ \/ InChain(tip)]
  /\ UNCHANGED <<Node, client, blockMail, txMail, utxo, dbTip, rescanAt, emitted>>

TakeAnswer(confirmed) ==
  /\ confirmed \in queries.answers
  /\ queries' = [queries EXCEPT !.answers = @ \ {confirmed}]
  /\ IF confirmed THEN Emit("confirmed") /\ UNCHANGED utxo
     ELSE Emit("mempool") /\ utxo' = TRUE
  /\ UNCHANGED <<Node, client, blockMail, txMail, dbTip, rescanAt, trouble>>

-----------------------------------------------------------------------------
(* A crash, at any time after the start or during it, forgets what is      *)
(* under way and what the rescan had left.  It matters when that was the   *)
(* transaction's, in a block below the saved tip: ZMQ does not order       *)
(* transactions with blocks, and new blocks save their heights during the  *)
(* rescan.  At the start the saved tip and the height are read, then       *)
(* subscriptions and filters are made, and last the chain is rescanned     *)
(* from that tip up to whatever the height is by then.                     *)
Underway == txMail + queries.asked > 0 \/ queries.answers # {}
Unscanned(b) == client.at = "rescan" /\ rescanAt <= Height(b)
Forgotten(b) == Height(b) < dbTip /\ (Underway \/ Unscanned(b))

\* faulty variant: the rescan begins after the saved tip
RescanAfter(h) == h + 1
RescanFrom(h) == h

Crash ==
  /\ trouble.restarts < MaxRestart /\ client.at # "down"
  /\ trouble' = [trouble EXCEPT !.restarts = @ + 1,
                   !.missed = @ \/ \E b \in Chain(tip) \intersect mined : Forgotten(b)]
  /\ client' = [client EXCEPT !.at = "down"]
  /\ blockMail' = [sent |-> {}, asked |-> {}] /\ txMail' = 0
  /\ queries' = [asked |-> 0, answers |-> {}] /\ utxo' = FALSE
  /\ UNCHANGED <<Node, dbTip, rescanAt, emitted>>

Connect ==
  /\ client.at = "down"
  /\ client' = [height |-> Height(tip), best |-> tip, at |-> "connect"]
  /\ emitted' = [emitted EXCEPT !.from = Height(tip), !.heights = << >>]
  /\ rescanAt' = RescanFrom(dbTip)
  /\ UNCHANGED <<Node, blockMail, txMail, queries, utxo, dbTip, trouble>>

Subscribe ==
  /\ client.at = "connect" /\ client' = [client EXCEPT !.at = "rescan"]
  /\ UNCHANGED <<Node, blockMail, txMail, queries, utxo, dbTip, rescanAt, emitted, trouble>>

RescanBlock ==
  /\ client.at = "rescan" /\ rescanAt <= client.height
  /\ rescanAt' = rescanAt + 1
  /\ IF \E b \in Chain(tip) \intersect mined : Height(b) = rescanAt
     THEN Emit("confirmed") ELSE UNCHANGED emitted
  /\ UNCHANGED <<Node, client, blockMail, txMail, queries, utxo, dbTip, trouble>>

RescanEnds ==
  /\ client.at = "rescan" /\ rescanAt > client.height
  /\ client' = [client EXCEPT !.at = "up"]
  /\ UNCHANGED <<Node, blockMail, txMail, queries, utxo, dbTip, rescanAt, emitted, trouble>>

ZmqNext ==
  \/ Broadcast \/ DropTx \/ ReceiveTx \/ NodeAnswers \/ QueryFails
  \/ \E p \in Blocks, withTx \in BOOLEAN : MineBlock(p, withTx)
  \/ \E b \in Blocks : DropBlock(b) \/ ReceiveBlock(b) \/ AnswerBlock(b)
  \/ \E confirmed \in BOOLEAN : TakeAnswer(confirmed)
  \/ Crash \/ Connect \/ Subscribe \/ RescanBlock \/ RescanEnds

ZmqSpec == ZmqInit /\ [][ZmqNext]_zmqVars

-----------------------------------------------------------------------------
ZmqTypeOK ==
  /\ \A b \in DOMAIN blocks : blocks[b] \in [parent : 0..(b - 1), height : 1..b, chain : SUBSET (0..b)]
  /\ Len(blocks) <= MaxBlocks /\ mined \subseteq Blocks /\ tip \in Blocks
  /\ client \in [height : 0..MaxBlocks, best : Blocks, at : {"down", "connect", "rescan", "up"}]
  /\ blockMail \in [sent : SUBSET Blocks, asked : SUBSET Blocks] /\ txMail \in 0..MaxMail
  /\ queries \in [asked : 0..MaxMail, answers : SUBSET BOOLEAN] /\ utxo \in BOOLEAN
  /\ dbTip \in 0..MaxBlocks /\ rescanAt \in 0..(MaxBlocks + 1)
  /\ emitted \in [from : 0..MaxBlocks, heights : Seq(Nat), tx : SUBSET {"mempool", "confirmed"}]
  /\ trouble \in [lost : 0..MaxLost, restarts : 0..MaxRestart, missed : BOOLEAN]

(* Expiry is checked on block events: whatever is lost, overtaken or       *)
(* reorganised, each height comes once and in order, and the height is     *)
(* that of the best block.                                                 *)
EveryHeightOnce ==
  /\ emitted.heights = [i \in 1..(client.height - emitted.from) |-> emitted.from + i]
  /\ client.height = Height(client.best)

(* When nothing is under way, a transaction in the node's chain was        *)
(* reported as confirmed, even in a block the client has not heard of,     *)
(* unless, with the transaction in the chain, its announcement was dropped *)
(* or the query it led to failed; or it was announced between the reading  *)
(* of the height and the filter; or a crash came before it was handled or  *)
(* rescanned although a later block was saved; or a reorganisation put it  *)
(* below the saved tip while the backend was down.                         *)
ConfirmationSeen ==
  client.at = "up" /\ ~Underway /\ ~trouble.missed /\ InChain(tip) => "confirmed" \in emitted.tx
=============================================================================
