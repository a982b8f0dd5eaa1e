---------------------------- MODULE EngineCall ----------------------------
(***************************************************************************)
(* What the engines of prax-duckdb and prax-sqlite have in common: a call  *)
(* is one statement in pool mode or one transaction(f), a future that      *)
(* suspends while it waits for the pool or awaits a statement; and a       *)
(* database session, of which only the open transaction matters.           *)
(***************************************************************************)
EXTENDS Semaphore

CONSTANTS
  NoTx,        (* a session in autocommit mode                             *)
  Leaked,      (* the owner of a transaction whose call is gone            *)
  Failing,     (* the statements that may fail in a session ready for them *)
  MayCancel    (* whether callers drop the futures they are given          *)

Sql == {"BEGIN", "STMT", "COMMIT", "ROLLBACK"}

ASSUME CallAssumption ==
  /\ NoTx \notin Req
  /\ Leaked \notin Req
  /\ NoTx # Leaked
  /\ Failing \subseteq Sql
  /\ MayCancel \in BOOLEAN

VARIABLES
  pc,          (* where the future of the call is suspended                *)
  reply,       (* what the awaited statement returned                      *)
  result,      (* what the call returned                                   *)
  session,     (* the request whose BEGIN opened the connection's          *)
               (* transaction, or NoTx                                     *)
  committed    (* requests whose transaction a COMMIT made durable         *)

callVars == <<pc, reply, result>>

Where == {"idle", "getQuery", "getTx", "query", "begin", "body", "stmt",
          "commit", "undo", "ended"}

CallInit ==
  /\ pc = [r \in Req |-> "idle"]
  /\ reply = [r \in Req |-> "none"]
  /\ result = [r \in Req |-> "none"]
  /\ committed = {}

Goto(r, from, to) == pc[r] = from /\ pc' = [pc EXCEPT ![r] = to]

(* The future completes with v; "lost" when it panics or is dropped. *)
Finish(r, v) ==
  /\ pc' = [pc EXCEPT ![r] = "ended"]
  /\ result' = [result EXCEPT ![r] = v]
  /\ reply' = [reply EXCEPT ![r] = "none"]

(* The awaited statement of r has returned v, and r consumes it. *)
Consume(r, v) ==
  /\ reply[r] = v
  /\ reply' = [reply EXCEPT ![r] = "none"]

(* A statement of r has answered v.  The answer of a statement whose       *)
(* future was dropped reaches nobody.                                      *)
Answer(r, v) ==
  reply' = IF pc[r] \in {"idle", "ended"} THEN reply ELSE [reply EXCEPT ![r] = v]

(* The call waits for a connection. *)
Getting(r) == pc[r] \in {"getQuery", "getTx"}

---------------------------------------------------------------------------
(* What op of request r may answer in a session whose transaction is that  *)
(* of s (NoTx: none), and whose transaction the session then has.  BEGIN   *)
(* inside and COMMIT or ROLLBACK outside a transaction fail; a COMMIT that *)
(* fails ends the transaction or leaves it open.                           *)
Outcomes(op, r, s) ==
  LET refused == IF op \in Failing THEN {<<"err", s>>} ELSE {} IN
  CASE op = "STMT" -> {<<"ok", s>>} \cup refused
    [] op = "BEGIN" /\ s = NoTx -> {<<"ok", r>>} \cup refused
    [] op = "COMMIT" /\ s # NoTx ->
         {<<"ok", NoTx>>} \cup refused
           \cup (IF op \in Failing THEN {<<"err", NoTx>>} ELSE {})
    [] op = "ROLLBACK" /\ s # NoTx -> {<<"ok", NoTx>>} \cup refused
    [] OTHER -> {<<"err", s>>}

(* op of r runs on connection c and answers v. *)
Execute(c, op, r, v) ==
  \E o \in Outcomes(op, r, session[c]) :
    /\ o[1] = v
    /\ session' = [session EXCEPT ![c] = o[2]]
    /\ committed' = IF op = "COMMIT" /\ v = "ok"
                      THEN committed \cup {session[c]}
                      ELSE committed

(* The name of a finished call is reused for a new one: what it left open  *)
(* belongs to nobody.  (No state of the program changes.)                  *)
Forget(r) ==
  /\ Goto(r, "ended", "idle")
  /\ session' = [c \in DOMAIN session |-> IF session[c] = r THEN Leaked ELSE session[c]]
  /\ result' = [result EXCEPT ![r] = "none"]
  /\ committed' = committed \ {r}
  /\ UNCHANGED reply

---------------------------------------------------------------------------
(* Properties of the engines *)

(* transaction reports what happened: Ok exactly when the COMMIT of that   *)
(* very transaction was carried out, and nothing of it is durable when it  *)
(* reports an error or panics.                                             *)
ReportsOutcome ==
  \A r \in Req :
    /\ result[r] = "ok" => r \in committed
    /\ result[r] \in {"err", "lost"} => r \notin committed

(* Ok means that the transaction of this very call was committed, whatever *)
(* panics, failures and dropped futures of earlier users of the connection *)
(* have left queued on it.                                                 *)
OkMeansCommitted == \A r \in Req : result[r] = "ok" => r \in committed

(* Every call is over some day and its permit is free again, although the  *)
(* clean-up after a panic or a dropped future is left to a task nobody     *)
(* awaits and a stashed engine pins the connection.                        *)
PermitComesBack ==
  \A r \in Req : lease[r] \in {"granted", "held"} ~> lease[r] = "none"
===========================================================================
