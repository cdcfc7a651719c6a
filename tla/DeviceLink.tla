----------------------------- MODULE DeviceLink -----------------------------
(***************************************************************************)
(* Linking a machine to an account: `darkbloom login` and `logout` on the  *)
(* machine (main.rs), the device-code endpoints of the coordinator         *)
(* (device_auth.go) and the people who approve codes in their browsers.    *)
(*                                                                         *)
(* A code is named by its number.  Requests may be lost on the way or      *)
(* their answers may; the coordinator serves requests concurrently, so the *)
(* check of the approval handler and the store's update are two steps.     *)
(* A code's expiry is a step of the environment; the client's own deadline *)
(* starts later and never falls before it.                                 *)
(***************************************************************************)
EXTENDS Integers, Sequences

CONSTANTS
    Hosts,      \* provider machines
    Accounts,   \* people who approve codes
    MaxCodes,   \* bound: device codes created
    MaxTokens   \* bound: provider tokens issued

NoCode == 0
HalfToken == -1 \* a token file of which only a part was written
NoAccount == "none"

VARIABLES
    codes,      \* the device codes: [host, status, account, expired]
    tokens,     \* the provider tokens: [code, account]
    saved,      \* the token file of each host: a token number, HalfToken, 0 when there is none
    login,      \* where the login of each host is
    mine,       \* the code each host polls for
    answer,     \* the answer to the poll, as the machine hears it: [kind, token]
    approving   \* the code each person's approval request has checked, or NoCode

linkVars == <<codes, tokens, saved, login, mine, answer, approving>>

Code == [host : Hosts, status : {"pending", "approved", "expired"},
         account : Accounts \union {NoAccount}, expired : BOOLEAN]
Known == DOMAIN codes
Plain(kind) == [kind |-> kind, token |-> 0]

LinkInit ==
    /\ codes = <<>> /\ tokens = <<>> /\ saved = [h \in Hosts |-> 0]
    /\ login = [h \in Hosts |-> "idle"] /\ mine = [h \in Hosts |-> NoCode]
    /\ answer = [h \in Hosts |-> Plain("none")] /\ approving = [a \in Accounts |-> NoCode]

Set(f, x, v) == [f EXCEPT ![x] = v]
Last == Len(tokens)

-----------------------------------------------------------------------------
(* The machine.                                                            *)

(* save_auth_token writes the file in place: an error, or the end of the    *)
(* process, leaves the token, a part of it or nothing.                     *)
SaveToken(h, t) == \E s \in {t, HalfToken, 0} : saved' = Set(saved, h, s)

(* delete_auth_token, which may fail.                                      *)
DeleteToken(h) == \E s \in {0, saved[h]} : saved' = Set(saved, h, s)

(* A token that is saved, or a part of one (load_auth_token), ends *)
(* the command at once; otherwise the coordinator creates a code           *)
(* (handleDeviceCode) and, unless the answer is lost, the machine shows it *)
(* and starts to poll.                                                     *)
StartLogin(h) ==
    /\ login[h] = "idle" /\ saved[h] = 0 /\ Len(codes) < MaxCodes
    /\ codes' = Append(codes, [host |-> h, status |-> "pending", account |-> NoAccount, expired |-> FALSE])
    /\ \/ login' = Set(login, h, "poll") /\ mine' = Set(mine, h, Len(codes) + 1)
       \/ UNCHANGED <<login, mine>>
    /\ UNCHANGED <<tokens, saved, answer, approving>>

(* A plausible bug: only an answer makes the client look at the clock.     *)
GiveUpAnswered(h) ==
    /\ login[h] = "heard" /\ answer[h].kind = "pending" /\ codes[mine[h]].expired
    /\ login' = Set(login, h, "idle") /\ mine' = Set(mine, h, NoCode)
    /\ answer' = Set(answer, h, Plain("none"))
    /\ UNCHANGED <<codes, tokens, saved, approving>>

(* The deadline has passed.                                                *)
GiveUp(h) ==
    /\ login[h] = "poll" /\ codes[mine[h]].expired
    /\ login' = Set(login, h, "idle") /\ mine' = Set(mine, h, NoCode)
    /\ UNCHANGED <<codes, tokens, saved, answer, approving>>

(* A request that is lost on its way is answered by a timeout.             *)
Poll(h) ==
    /\ login[h] = "poll"
    /\ \/ login' = Set(login, h, "asked") /\ UNCHANGED answer
       \/ login' = Set(login, h, "heard") /\ answer' = Set(answer, h, Plain("lost"))
    /\ UNCHANGED <<codes, tokens, saved, mine, approving>>

(* The answer to a poll: an error of the network or a pending code means   *)
(* another round, a token is saved, anything else ends the command.        *)
Hear(h) ==
    /\ login[h] = "heard" /\ answer' = Set(answer, h, Plain("none"))
    /\ IF answer[h].kind \in {"pending", "lost"}
       THEN login' = Set(login, h, "poll") /\ UNCHANGED <<saved, mine>>
       ELSE /\ IF answer[h].kind = "gone" THEN UNCHANGED saved ELSE SaveToken(h, answer[h].token)
            /\ login' = Set(login, h, "idle") /\ mine' = Set(mine, h, NoCode)
    /\ UNCHANGED <<codes, tokens, approving>>

(* The local token is deleted; the coordinator is not told.                *)
Logout(h) ==
    /\ login[h] = "idle" /\ saved[h] # 0 /\ DeleteToken(h)
    /\ UNCHANGED <<codes, tokens, login, mine, answer, approving>>

-----------------------------------------------------------------------------
(* The coordinator.                                                        *)

(* Every poll of an approved code issues a token of its own.  A token that *)
(* cannot be stored is an error, which ends the login; at the bound on     *)
(* tokens the answer is lost.                                              *)
Issue(h, c) ==
    /\ c.status = "approved"
    /\ \/ answer' = Set(answer, h, Plain("gone")) /\ UNCHANGED tokens
       \/ IF Last < MaxTokens
          THEN /\ tokens' = Append(tokens, [code |-> mine[h], account |-> c.account])
               /\ answer' \in {Set(answer, h, [kind |-> "token", token |-> Last + 1]),
                               Set(answer, h, Plain("lost"))}
          ELSE answer' = Set(answer, h, Plain("lost")) /\ UNCHANGED tokens

(* handleDeviceToken: an expired code, a pending one, or a token.          *)
DeviceToken(h) ==
    /\ login[h] = "asked" /\ login' = Set(login, h, "heard")
    /\ LET c == codes[mine[h]]
       IN  \/ c.expired /\ answer' = Set(answer, h, Plain("gone")) /\ UNCHANGED tokens
           \/ ~c.expired /\ c.status = "pending" /\ UNCHANGED tokens
              /\ answer' \in {Set(answer, h, Plain("pending")), Set(answer, h, Plain("lost"))}
           \/ ~c.expired /\ Issue(h, c)
           \/ ~c.expired /\ c.status = "expired" /\ answer' = Set(answer, h, Plain("gone")) /\ UNCHANGED tokens
    /\ UNCHANGED <<codes, saved, mine, approving>>

(* handleDeviceApprove, first the checks of the handler.                   *)
CheckCode(a, c) ==
    /\ approving[a] = NoCode /\ ~codes[c].expired /\ codes[c].status = "pending"
    /\ approving' = Set(approving, a, c)
    /\ UNCHANGED <<codes, tokens, saved, login, mine, answer>>

(* A plausible bug: the store relies on the checks of the handler.         *)
ApproveUnasked(a) ==
    /\ approving[a] # NoCode
    /\ codes' = [codes EXCEPT ![approving[a]].status = "approved", ![approving[a]].account = a]
    /\ approving' = Set(approving, a, NoCode)
    /\ UNCHANGED <<tokens, saved, login, mine, answer>>

(* Then ApproveDeviceCode, which checks again under the store's lock.      *)
ApproveDeviceCode(a) ==
    /\ approving[a] # NoCode
    /\ LET c == approving[a]
       IN  codes' = IF codes[c].status # "pending" THEN codes
                    ELSE IF codes[c].expired THEN [codes EXCEPT ![c].status = "expired"]
                    ELSE [codes EXCEPT ![c].status = "approved", ![c].account = a]
    /\ approving' = Set(approving, a, NoCode)
    /\ UNCHANGED <<tokens, saved, login, mine, answer>>

CodeExpires(c) ==
    /\ ~codes[c].expired /\ codes' = [codes EXCEPT ![c].expired = TRUE]
    /\ UNCHANGED <<tokens, saved, login, mine, answer, approving>>

LinkNext ==
    \/ \E h \in Hosts : StartLogin(h) \/ GiveUp(h) \/ Poll(h) \/ Hear(h) \/ Logout(h) \/ DeviceToken(h)
    \/ \E a \in Accounts : ApproveDeviceCode(a) \/ \E c \in Known : CheckCode(a, c)
    \/ \E c \in Known : CodeExpires(c)

(* The client polls on and the coordinator answers; time passes.           *)
LinkFairness ==
    /\ \A h \in Hosts : /\ WF_linkVars(Poll(h) \/ Hear(h) \/ DeviceToken(h))
                        /\ SF_linkVars(GiveUp(h))
    /\ \A c \in 1..MaxCodes : WF_linkVars(c \in Known /\ CodeExpires(c))

LinkSpec == LinkInit /\ [][LinkNext]_linkVars /\ LinkFairness

-----------------------------------------------------------------------------

LinkTypeOK ==
    /\ Known \subseteq 1..MaxCodes /\ \A c \in Known : codes[c] \in Code
    /\ DOMAIN tokens \subseteq 1..MaxTokens
    /\ saved \in [Hosts -> {0, HalfToken} \union DOMAIN tokens] /\ mine \in [Hosts -> {NoCode} \union Known]
    /\ login \in [Hosts -> {"idle", "poll", "asked", "heard"}]
    /\ approving \in [Accounts -> {NoCode} \union Known]

(* A machine earns for the account that approved the code it showed: the   *)
(* token it saved was issued for its own code and for that code's account. *)
(* A torn file names no token.                                             *)
LinkedToApprover ==
    \A h \in Hosts : saved[h] \notin {0, HalfToken} =>
        LET t == tokens[saved[h]]
        IN  codes[t.code].host = h /\ codes[t.code].account = t.account

(* "this code has already been used": a code is approved by one account    *)
(* and stays with it, also when two people enter it at the same moment.    *)
OneApproval ==
    [][\A c \in Known : codes[c].account # NoAccount => codes'[c].account = codes[c].account]_linkVars

(* A machine is linked to the one account that approved its code.          *)
LinkIsApproved == []LinkedToApprover /\ OneApproval

(* A login ends: with a token, with an error, or at its deadline.          *)
LoginEnds == \A h \in Hosts : (login[h] # "idle") ~> (login[h] = "idle")
=============================================================================
