--------------------------------- MODULE Otp ---------------------------------
(***************************************************************************)
(* AuthService and OtpService for one address: registration, one-time      *)
(* codes and login.  Every statement is a step of its own; none of these   *)
(* operations uses a transaction.                                          *)
(*                                                                         *)
(* A code is typed right or wrong; two codes are never equal.  Time only   *)
(* moves a code from fresh (resending has to wait) over cooled to lapsed.  *)
(* Passwords are left out: whoever logs in knows it.                       *)
(***************************************************************************)
EXTENDS Integers, Sequences, FiniteSets

CONSTANTS AuthRequests,      \* register, resend, verify and login requests
          MaxAttempts,       \* OTP_MAX_VERIFY_ATTEMPTS
          MaxAuthInFlight,   \* bound: requests being served at a time
          MaxAuthFaults      \* bound: crashes and failed statements

ASSUME AuthBounds == /\ MaxAttempts \in Nat \ {0}
                     /\ MaxAuthInFlight \in Nat /\ MaxAuthFaults \in Nat

VARIABLES user,            \* User: the status
          ownsWallet,      \* whether its WalletAccount exists
          otps,            \* OtpRequest rows in the order of creation
          accepted,        \* how often each code was accepted
          guesses,         \* how often a wrong code was refused against each row
          unlocked,        \* the admin has set the user ACTIVE
          authorized,      \* the user has been given an access token
          auth,            \* progress of each request
          authOverlapped,  \* two requests have been served at once
          authFaults       \* number of faults so far

authVars == <<user, ownsWallet, otps, accepted, guesses, unlocked, authorized, auth,
              authOverlapped, authFaults>>

UserStatus == {"none", "PENDING_VERIFICATION", "ACTIVE", "LOCKED"}
OtpStatus  == {"ACTIVE", "USED", "EXPIRED", "LOCKED"}
OtpRequest == [status : OtpStatus, attempts : 0..MaxAttempts, age : {"fresh", "cooled", "lapsed"}]

AuthSteps == {"idle", "hashing", "needsWallet", "resending", "expiring", "creating",
              "lapsed", "wrong", "right", "activating", "tokening", "ended"}
Auth == [step : AuthSteps, otp : Nat, attempts : 0..MaxAttempts]

AuthResting(step) == [step |-> step, otp |-> 0, attempts |-> 0]
AuthInFlight == {q \in AuthRequests : auth[q].step \notin {"idle", "ended"}}

AuthTypeOK ==
  /\ user \in UserStatus
  /\ {ownsWallet, unlocked, authorized, authOverlapped} \subseteq BOOLEAN
  /\ \A i \in 1..Len(otps) : otps[i] \in OtpRequest
  /\ Len(accepted) = Len(otps) /\ Len(guesses) = Len(otps)
  /\ auth \in [AuthRequests -> Auth]
  /\ authFaults \in 0..MaxAuthFaults

AuthInit ==
  /\ user = "none" /\ ownsWallet = FALSE /\ unlocked = FALSE /\ authorized = FALSE
  /\ otps = <<>> /\ accepted = <<>> /\ guesses = <<>>
  /\ auth = [q \in AuthRequests |-> AuthResting("idle")]
  /\ authOverlapped = FALSE
  /\ authFaults = 0

AuthFault == authFaults < MaxAuthFaults /\ authFaults' = authFaults + 1

AuthArrives(q) ==
  /\ auth[q].step = "idle"
  /\ Cardinality(AuthInFlight) < MaxAuthInFlight
  /\ authOverlapped' = (authOverlapped \/ AuthInFlight # {})
AuthAt(q, step)   == auth[q].step = step /\ UNCHANGED authOverlapped
AuthGoes(q, step) == auth' = [auth EXCEPT ![q].step = step]
AuthEnds(q)       == auth' = [auth EXCEPT ![q] = AuthResting("ended")]

otpVars  == <<otps, accepted, guesses>>
userVars == <<user, ownsWallet, unlocked>>

-----------------------------------------------------------------------------
(* register                                                                *)

BeginRegister(q) ==
  /\ AuthArrives(q)
  /\ user = "none"
  /\ AuthGoes(q, "hashing")
  /\ UNCHANGED <<userVars, otpVars, authorized, authFaults>>

(* The database refuses a second user with the address.                    *)
CreateUser(q) ==
  /\ AuthAt(q, "hashing")
  /\ IF user = "none" THEN user' = "PENDING_VERIFICATION" /\ AuthGoes(q, "needsWallet")
                      ELSE AuthEnds(q) /\ UNCHANGED user
  /\ UNCHANGED <<ownsWallet, unlocked, otpVars, authorized, authFaults>>

(* Fault: the wallet is left to a later operation.                         *)
SkipsWallet(q) ==
  /\ AuthAt(q, "needsWallet")
  /\ AuthGoes(q, "expiring")
  /\ UNCHANGED <<userVars, otpVars, authorized, authFaults>>

CreateWallet(q) ==
  /\ AuthAt(q, "needsWallet")
  /\ ownsWallet' = TRUE
  /\ AuthGoes(q, "expiring")
  /\ UNCHANGED <<user, unlocked, otpVars, authorized, authFaults>>

-----------------------------------------------------------------------------
(* resendOtp and createOtp                                                 *)

BeginResend(q) ==
  /\ AuthArrives(q)
  /\ otps # <<>> => otps[Len(otps)].age # "fresh"
  /\ AuthGoes(q, "resending")
  /\ UNCHANGED <<userVars, otpVars, authorized, authFaults>>

(* Fault: the rows are matched by a status they never have.                *)
ExpireNone(q) ==
  /\ AuthAt(q, "resending") \/ AuthAt(q, "expiring")
  /\ AuthGoes(q, IF auth[q].step = "resending" THEN "expiring" ELSE "creating")
  /\ UNCHANGED <<userVars, otpVars, authorized, authFaults>>

(* resendOtp expires what is active, and createOtp does it again.          *)
ExpireActive(q) ==
  /\ AuthAt(q, "resending") \/ AuthAt(q, "expiring")
  /\ otps' = [i \in 1..Len(otps) |->
                IF otps[i].status = "ACTIVE" THEN [otps[i] EXCEPT !.status = "EXPIRED"]
                                             ELSE otps[i]]
  /\ AuthGoes(q, IF auth[q].step = "resending" THEN "expiring" ELSE "creating")
  /\ UNCHANGED <<userVars, accepted, guesses, authorized, authFaults>>

(* The code is sent by email; if that fails the row stays.                 *)
CreateOtp(q) ==
  /\ AuthAt(q, "creating")
  /\ otps' = Append(otps, [status |-> "ACTIVE", attempts |-> 0, age |-> "fresh"])
  /\ accepted' = Append(accepted, 0)
  /\ guesses' = Append(guesses, 0)
  /\ AuthEnds(q)
  /\ UNCHANGED <<userVars, authorized, authFaults>>

-----------------------------------------------------------------------------
(* verifyOtp                                                               *)

ActiveOtps == {i \in 1..Len(otps) : otps[i].status = "ACTIVE"}

(* It takes the active code made last.                                     *)
BeginVerify(q) ==
  /\ AuthArrives(q)
  /\ \E i \in ActiveOtps :
       /\ \A j \in ActiveOtps : j <= i
       /\ \E step \in IF otps[i].age = "lapsed" THEN {"lapsed"} ELSE {"wrong", "right"} :
            auth' = [auth EXCEPT ![q] = [step |-> step, otp |-> i,
                                         attempts |-> otps[i].attempts]]
  /\ UNCHANGED <<userVars, otpVars, authorized, authFaults>>

MarkLapsed(q) ==
  /\ AuthAt(q, "lapsed")
  /\ otps' = [otps EXCEPT ![auth[q].otp].status = "EXPIRED"]
  /\ AuthEnds(q)
  /\ UNCHANGED <<userVars, accepted, guesses, authorized, authFaults>>

(* Attempts and status are those of the read, one further: the status is   *)
(* ACTIVE again, whatever it has become, unless this locks it.             *)
RefuseCode(q) ==
  /\ AuthAt(q, "wrong")
  /\ LET i == auth[q].otp
         next == auth[q].attempts + 1
     IN  /\ otps' = [otps EXCEPT ![i].attempts = next,
                                 ![i].status = IF next >= MaxAttempts THEN "LOCKED" ELSE "ACTIVE"]
         /\ guesses' = [guesses EXCEPT ![i] = @ + 1]
  /\ AuthEnds(q)
  /\ UNCHANGED <<userVars, accepted, authorized, authFaults>>

AcceptCode(q) ==
  /\ AuthAt(q, "right")
  /\ LET i == auth[q].otp
     IN  /\ otps' = [otps EXCEPT ![i].status = "USED"]
         /\ accepted' = [accepted EXCEPT ![i] = @ + 1]
  /\ AuthGoes(q, "activating")
  /\ UNCHANGED <<userVars, guesses, authorized, authFaults>>

(* It throws if there is no user, as for a code resent to an unknown       *)
(* address; the code stays used.                                           *)
ActivateUser(q) ==
  /\ AuthAt(q, "activating")
  /\ IF user = "none" THEN AuthEnds(q) /\ UNCHANGED user
                      ELSE AuthGoes(q, "tokening") /\ user' = "ACTIVE"
  /\ UNCHANGED <<ownsWallet, unlocked, otpVars, authorized, authFaults>>

(* The end of verifyOtp; login ends the same way.                          *)
SignToken(q) ==
  /\ AuthAt(q, "tokening")
  /\ authorized' = TRUE
  /\ AuthEnds(q)
  /\ UNCHANGED <<userVars, otpVars, authFaults>>

(* Fault: login checks only that the user exists.                          *)
LoginUnverified(q) ==
  /\ AuthArrives(q)
  /\ user # "none"
  /\ AuthGoes(q, "tokening")
  /\ UNCHANGED <<userVars, otpVars, authorized, authFaults>>

(* login: "User is not verified"                                           *)
BeginLogin(q) ==
  /\ AuthArrives(q)
  /\ user = "ACTIVE"
  /\ AuthGoes(q, "tokening")
  /\ UNCHANGED <<userVars, otpVars, authorized, authFaults>>

-----------------------------------------------------------------------------
(* AdminService.lockUser: by id, whatever the status is.                   *)
LockUser ==
  /\ user # "none"
  /\ user' \in {"LOCKED", "ACTIVE"}
  /\ unlocked' = (unlocked \/ user' = "ACTIVE")
  /\ UNCHANGED <<ownsWallet, otpVars, authorized, auth, authOverlapped, authFaults>>

Ages ==
  /\ \E i \in 1..Len(otps), age \in {"cooled", "lapsed"} :
       /\ otps[i].age = IF age = "cooled" THEN "fresh" ELSE "cooled"
       /\ \A j \in 1..i-1 : otps[j].age # otps[i].age
       /\ otps' = [otps EXCEPT ![i].age = age]
  /\ UNCHANGED <<userVars, accepted, guesses, authorized, auth, authOverlapped, authFaults>>

(* The server dies, or a statement or the email fails.                     *)
CrashAuth(q) ==
  /\ q \in AuthInFlight
  /\ AuthFault
  /\ AuthEnds(q)
  /\ UNCHANGED <<userVars, otpVars, authorized, authOverlapped>>

AuthStep(q) ==
  \/ BeginRegister(q) \/ CreateUser(q) \/ CreateWallet(q)
  \/ BeginResend(q) \/ ExpireActive(q) \/ CreateOtp(q)
  \/ BeginVerify(q) \/ MarkLapsed(q) \/ RefuseCode(q)
  \/ AcceptCode(q) \/ ActivateUser(q) \/ SignToken(q) \/ BeginLogin(q)
  \/ CrashAuth(q)

AuthNext == LockUser \/ Ages \/ \E q \in AuthRequests : AuthStep(q)

AuthSpec == AuthInit /\ [][AuthNext]_authVars

-----------------------------------------------------------------------------
(* Properties                                                              *)

(* As long as no two requests overlap, whatever statement fails: only the  *)
(* code made last can be active; a code is accepted once, and not once it  *)
(* was refused MaxAttempts times, which is counted exactly.                *)
CodesAgree ==
  ~authOverlapped =>
    \A i \in 1..Len(otps) :
      /\ otps[i].status = "ACTIVE" => i = Len(otps)
      /\ accepted[i] <= 1
      /\ accepted[i] = 1 <=> otps[i].status = "USED"
      /\ otps[i].attempts = guesses[i]
      /\ otps[i].status = "LOCKED" <=> guesses[i] = MaxAttempts

(* A user has a wallet, unless its registration is still going on or was   *)
(* cut off; overlapping registrations make one user and one wallet.        *)
RegisteredHasWallet ==
  user # "none" =>
    ownsWallet \/ authFaults > 0 \/ \E q \in AuthRequests : auth[q].step = "needsWallet"

(* Only who proved the address with a code, or was unlocked by the admin,  *)
(* is ever given a token.                                                  *)
Verified == unlocked \/ \E i \in 1..Len(accepted) : accepted[i] > 0
TokensAreVerified == authorized => Verified
=============================================================================
