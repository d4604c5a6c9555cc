------------------------------ MODULE HashSpec ------------------------------
(***************************************************************************)
(* What sha1dc promises of its hashers, without buffers, lengths, blocks   *)
(* or calls in progress: a hasher is its settings and the message fed to   *)
(* it, and finalizing it returns the digest of exactly that message under  *)
(* exactly those settings.  How the message was split into updates, what   *)
(* the hasher was reset from and which hasher it was cloned from leave no  *)
(* trace.  Hasher implements this.                                         *)
(***************************************************************************)
EXTENDS MessageFormat

CONSTANTS
  Ids,        (* names for the hashers a program holds                      *)
  Settings,   (* the configurations a Builder can be given                  *)
  Data,       (* what one update is given                                   *)
  NoResult    (* no finalization has returned yet                           *)

VARIABLES
  settings,   (* hasher -> settings, for the hashers that exist             *)
  message,    (* hasher -> bytes fed since it was made or reset             *)
  result      (* name -> what its last finalization returned                *)

specVars == <<settings, message, result>>

(* A finalization of a hasher with settings s fed m may return r.          *)
IsResultOf(s, m, r) ==
  /\ r.settings = s
  /\ r.message = m
  /\ IsChainOf(s, m, r.digest)
  /\ r.kind = ResultKind(s, r.digest)

SpecInit ==
  /\ settings = [i \in {} |-> {}]
  /\ message = [i \in {} |-> << >>]
  /\ result = [i \in Ids |-> NoResult]

SpecBuild(i, s) ==
  /\ i \notin DOMAIN message
  /\ settings' = [j \in DOMAIN settings \cup {i} |->
                    IF j = i THEN s ELSE settings[j]]
  /\ message' = [j \in DOMAIN message \cup {i} |->
                    IF j = i THEN << >> ELSE message[j]]
  /\ UNCHANGED result

SpecUpdate(i, d) ==
  /\ i \in DOMAIN message
  /\ message' = [message EXCEPT ![i] = @ \o d]
  /\ UNCHANGED <<settings, result>>

SpecReset(i) ==
  /\ i \in DOMAIN message
  /\ message' = [message EXCEPT ![i] = << >>]
  /\ UNCHANGED <<settings, result>>

(* finalize consumes the hasher.                                           *)
SpecFinalize(i) ==
  /\ i \in DOMAIN message
  /\ IsResultOf(settings[i], message[i], result'[i])
  /\ result' = [result EXCEPT ![i] = result'[i]]
  /\ settings' = [j \in DOMAIN settings \ {i} |-> settings[j]]
  /\ message' = [j \in DOMAIN message \ {i} |-> message[j]]

SpecFinalizeReset(i) ==
  /\ i \in DOMAIN message
  /\ IsResultOf(settings[i], message[i], result'[i])
  /\ result' = [result EXCEPT ![i] = result'[i]]
  /\ message' = [message EXCEPT ![i] = << >>]
  /\ UNCHANGED settings

SpecClone(i, j) ==
  /\ i \in DOMAIN message
  /\ j \notin DOMAIN message
  /\ settings' = [k \in DOMAIN settings \cup {j} |->
                    IF k = j THEN settings[i] ELSE settings[k]]
  /\ message' = [k \in DOMAIN message \cup {j} |->
                    IF k = j THEN message[i] ELSE message[k]]
  /\ UNCHANGED result

SpecNext ==
  \E i \in Ids :
    \/ \E s \in Settings : SpecBuild(i, s)
    \/ \E d \in Data : SpecUpdate(i, d)
    \/ SpecReset(i)
    \/ SpecFinalize(i)
    \/ SpecFinalizeReset(i)
    \/ \E j \in Ids : SpecClone(i, j)

SpecSpec == SpecInit /\ [][SpecNext]_specVars
=============================================================================
