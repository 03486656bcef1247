------------------------------ MODULE FabricTx ------------------------------
(***************************************************************************)
(* The fabric transaction helper of src/internal/messages/messages.go     *)
(* (package fabric, lines 158-261) and the message types and error reply   *)
(* of the messages package (lines 17-142).                                 *)
(*                                                                         *)
(* A client turns each SendTransaction message into a Tx (NewSendTx),     *)
(* submits it (Send), may look its receipt up (GetTXReceipt), and answers  *)
(* a failure with NewErrorReply.  The callers of this API are not in this  *)
(* file, so the client is any sequence of calls the exported API allows.   *)
(* rpc.Invoke is the environment: it submits the invocation to the        *)
(* ordering service, which commits it later, one transaction per block.   *)
(* Send's context deadline of 30 s makes Invoke return an error whether or *)
(* not the invocation has committed by then.                               *)
(***************************************************************************)
EXTENDS Naturals, FiniteSets, TLC

CONSTANTS
    Reqs,           \* SendTransaction requests, one Tx object each
    Channels, Chaincodes, Functions, ArgLists, Signers,
    TxIds,          \* transaction ids the ledger can assign
    OrigKinds,      \* how a client passes origMsg to NewErrorReply
    MaxSends,       \* bound on the Send calls made on one Tx
    RpcMayFail,     \* rpc.Invoke may fail before anything is submitted
    ClientSetsHash  \* a client copies Receipt.TransactionID into Tx.Hash

ASSUME OrigKinds \subseteq {"bytes", "struct"} /\ MaxSends \in Nat \ {0}

NoId == ""          \* Go's zero string: a Tx.Hash nothing assigned
NoErr == "nil"

\* message type constants (messages.go 26-39)
MsgTypeError == "Error"
MsgTypeSendTransaction == "SendTransaction"

\* CommonHeaders as RequestHeaders of a request (messages.go 48-60)
RequestHeaders ==
    [id : Reqs, type : {MsgTypeSendTransaction}, signer : Signers, channel : Channels]

\* RequestCommon, TransactionCommon and SendTransaction (messages.go 71-103)
SendTransaction ==
    [headers : RequestHeaders, chaincode : Chaincodes, func : Functions, args : ArgLists]

\* one SendTransaction message per request, its header id naming it
Msg == CHOOSE m \in [Reqs -> SendTransaction] : \A r \in Reqs : m[r].headers.id = r

\* TxReceipt (messages.go 183-190) reduced to what the client can act on;
\* the zero value is what Invoke returns with an error
TxReceipt == [blockNumber : Nat, transactionID : TxIds \cup {NoId}]
ZeroReceipt == [blockNumber |-> 0, transactionID |-> NoId]

\* Tx (messages.go 171-181)
Tx == [channelID : Channels, chaincodeName : Chaincodes, function : Functions,
       args : ArgLists, hash : TxIds \cup {NoId}, receipt : TxReceipt,
       signer : Signers]

\* json.Marshal of a message: an injective encoding, never the value itself
Marshal(m) == <<"json", m>>

\* ReplyHeaders of ReplyCommon (messages.go 62-89): of its fields only the
\* message type is set by NewErrorReply
ReplyHeaders == [type : {MsgTypeError}]

\* ErrorReply (messages.go 119-124)
ErrorReply == [headers : ReplyHeaders, errorMessage : STRING,
               requestPayload : {Marshal(m) : m \in SendTransaction} \cup {""},
               transactionHash : {NoId}]

\* origMsg as a client passes it: the raw request body ([]byte), which is
\* the marshalled message, or the parsed message itself
OrigMsg(kind, m) == IF kind = "bytes" THEN [kind |-> "bytes", val |-> Marshal(m)]
                    ELSE [kind |-> "struct", val |-> m]

\* mutant: the raw []byte body is marshalled again instead of converted
NewErrorReply_bytesMarshalled(err, origMsg) ==
    [headers |-> [type |-> MsgTypeError],
     errorMessage |-> IF err = NoErr THEN "" ELSE err,
     requestPayload |-> Marshal(origMsg.val),
     transactionHash |-> NoId]

\* NewErrorReply: type Error, the error text if any, and origMsg as a
\* string: a byte slice converted, anything else marshalled (a nil or a
\* non-byte slice origMsg panics: see README)
NewErrorReply(err, origMsg) ==
    [headers |-> [type |-> MsgTypeError],
     errorMessage |-> IF err = NoErr THEN "" ELSE err,
     requestPayload |-> IF origMsg.kind = "bytes" THEN origMsg.val
                        ELSE Marshal(origMsg.val),
     transactionHash |-> NoId]

\* mutant: buildTX takes the Hash from the request id
NewSendTx_hashFromRequestId(m, signer) ==
    [channelID |-> m.headers.channel, chaincodeName |-> m.chaincode,
     function |-> m.func, args |-> m.args, signer |-> signer,
     hash |-> m.headers.id, receipt |-> ZeroReceipt]

\* NewSendTx via buildTX: copies the message fields, sets no Hash
NewSendTx(m, signer) ==
    [channelID |-> m.headers.channel, chaincodeName |-> m.chaincode,
     function |-> m.func, args |-> m.args, signer |-> signer,
     hash |-> NoId, receipt |-> ZeroReceipt]

VARIABLES
    tx,         \* the Tx objects built so far: a function on the built requests
    call,       \* [Reqs -> {"idle", "send"}]: a Send blocked in rpc.Invoke
    sendId,     \* the id the current or last Send submitted, NoId if none
    sendErr,    \* the error the last Send returned
    sends,      \* Send calls made per request
    lookup,     \* result of the last GetTXReceipt since the last Send
    replies,    \* error replies built per request
    pending,    \* invocations submitted and not committed: [id, req]
    ledger,     \* committed invocations: [id, req, block]
    height      \* the last block; block 0 is the genesis block

vars == <<tx, call, sendId, sendErr, sends, lookup, replies, pending, ledger, height>>

Used == {p.id : p \in pending} \cup {e.id : e \in ledger}

ReceiptOf(e) == [blockNumber |-> e.block, transactionID |-> e.id]

Init ==
    /\ tx = <<>>
    /\ call = [r \in Reqs |-> "idle"]
    /\ sendId = [r \in Reqs |-> NoId]
    /\ sendErr = [r \in Reqs |-> NoErr]
    /\ sends = [r \in Reqs |-> 0]
    /\ lookup = [r \in Reqs |-> "none"]
    /\ replies = [r \in Reqs |-> {}]
    /\ pending = {}
    /\ ledger = {}
    /\ height = 0

BuildTx(r) ==
    /\ r \notin DOMAIN tx
    /\ tx' = tx @@ (r :> NewSendTx(Msg[r], Msg[r].headers.signer))
    /\ UNCHANGED <<call, sendId, sendErr, sends, lookup, replies, pending, ledger, height>>

\* Send, up to rpc.Invoke blocking: the rpc client either fails before
\* submitting or submits the invocation under a fresh transaction id; a
\* client calls it again only after an error (spec 9: ledger errors are
\* retryable at the caller's discretion)
SendCall(r) ==
    /\ r \in DOMAIN tx
    /\ call[r] = "idle"
    /\ sends[r] < MaxSends
    /\ sends[r] = 0 \/ sendErr[r] # NoErr
    /\ \/ \E t \in TxIds \ Used :
            /\ pending' = pending \cup {[id |-> t, req |-> r]}
            /\ sendId' = [sendId EXCEPT ![r] = t]
       \/ /\ RpcMayFail
          /\ sendId' = [sendId EXCEPT ![r] = NoId]
          /\ UNCHANGED pending
    /\ call' = [call EXCEPT ![r] = "send"]
    /\ sends' = [sends EXCEPT ![r] = @ + 1]
    /\ lookup' = [lookup EXCEPT ![r] = "none"]
    /\ UNCHANGED <<tx, sendErr, replies, ledger, height>>

\* the ordering service commits a submitted invocation in the next block
LedgerCommit ==
    \E p \in pending :
        /\ pending' = pending \ {p}
        /\ height' = height + 1
        /\ ledger' = ledger \cup {[id |-> p.id, req |-> p.req, block |-> height + 1]}
        /\ UNCHANGED <<tx, call, sendId, sendErr, sends, lookup, replies>>

\* Send, from rpc.Invoke returning: tx.Receipt is assigned whatever Invoke
\* returned, the committed receipt or, with an error, the zero receipt.
\* The 30 s deadline can end the call before or after the commit.
SendReturn(r) ==
    /\ call[r] = "send"
    /\ \/ \E e \in ledger :
            /\ e.id = sendId[r]
            /\ tx' = [tx EXCEPT ![r].receipt = ReceiptOf(e)]
            /\ sendErr' = [sendErr EXCEPT ![r] = NoErr]
       \/ /\ tx' = [tx EXCEPT ![r].receipt = ZeroReceipt]
          /\ sendErr' = [sendErr EXCEPT ![r] =
                            IF sendId[r] = NoId THEN "rpcError" ELSE "timeout"]
    /\ call' = [call EXCEPT ![r] = "idle"]
    /\ UNCHANGED <<sendId, sends, lookup, replies, pending, ledger, height>>

\* GetTXReceipt: qscc GetTransactionByID(tx.Hash); an unknown id or a
\* failed call is an error and leaves tx.Receipt alone; otherwise the
\* receipt is stored and isMined = BlockNumber > 0
GetTXReceipt(r) ==
    /\ r \in DOMAIN tx
    /\ call[r] = "idle"
    /\ \/ \E e \in ledger :
            /\ e.id = tx[r].hash
            /\ tx' = [tx EXCEPT ![r].receipt = ReceiptOf(e)]
            /\ lookup' = [lookup EXCEPT ![r] =
                            IF ReceiptOf(e).blockNumber > 0 THEN "mined" ELSE "notMined"]
       \/ /\ RpcMayFail \/ tx[r].hash \notin {e.id : e \in ledger}
          /\ lookup' = [lookup EXCEPT ![r] = "error"]
          /\ UNCHANGED tx
    /\ UNCHANGED <<call, sendId, sendErr, sends, replies, pending, ledger, height>>

\* a client copies the id of the receipt into the exported Tx.Hash
ClientCopiesHash(r) ==
    /\ ClientSetsHash
    /\ r \in DOMAIN tx
    /\ call[r] = "idle"
    /\ tx[r].receipt.transactionID \notin {NoId, tx[r].hash}
    /\ tx' = [tx EXCEPT ![r].hash = tx[r].receipt.transactionID]
    /\ UNCHANGED <<call, sendId, sendErr, sends, lookup, replies, pending, ledger, height>>

\* a client answers a failed Send with NewErrorReply(err, origMsg)
ClientRepliesError(r) ==
    /\ r \in DOMAIN tx
    /\ call[r] = "idle"
    /\ sendErr[r] # NoErr
    /\ \E kind \in OrigKinds :
          replies' = [replies EXCEPT ![r] =
                         @ \cup {NewErrorReply(sendErr[r], OrigMsg(kind, Msg[r]))}]
    /\ UNCHANGED <<tx, call, sendId, sendErr, sends, lookup, pending, ledger, height>>

Next ==
    \/ LedgerCommit
    \/ \E r \in Reqs :
          \/ BuildTx(r) \/ SendCall(r) \/ SendReturn(r) \/ GetTXReceipt(r)
          \/ ClientCopiesHash(r) \/ ClientRepliesError(r)

Spec == Init /\ [][Next]_vars

-----------------------------------------------------------------------------

TypeOK ==
    /\ DOMAIN tx \subseteq Reqs /\ \A r \in DOMAIN tx : tx[r] \in Tx
    /\ call \in [Reqs -> {"idle", "send"}]
    /\ sendId \in [Reqs -> TxIds \cup {NoId}]
    /\ sendErr \in [Reqs -> {NoErr, "timeout", "rpcError"}]
    /\ sends \in [Reqs -> 0 .. MaxSends]
    /\ lookup \in [Reqs -> {"none", "mined", "notMined", "error"}]
    /\ replies \in [Reqs -> SUBSET ErrorReply]
    /\ height \in Nat

\* Every error reply built for a failed Send carries that Send's error and
\* the request it answers, however the client passed the original message.
ErrorReplyCarriesRequest ==
    \A r \in Reqs : \A rep \in replies[r] :
        /\ rep.errorMessage \in {"timeout", "rpcError"}
        /\ rep.requestPayload = Marshal(Msg[r])

\* GetTXReceipt finds a transaction that Send reported committed: once Send
\* stored a receipt, a lookup that did not fail reports it mined.
SentTxIsFound ==
    \A r \in DOMAIN tx :
        (tx[r].receipt # ZeroReceipt /\ lookup[r] # "none") => lookup[r] = "mined"
=============================================================================
