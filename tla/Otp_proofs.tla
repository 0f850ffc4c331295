------------------------------- MODULE Otp_proofs -------------------------------
(***************************************************************************)
(* Theorems about Otp, for any requests, attempts and number of faults.    *)
(***************************************************************************)
EXTENDS Otp, SequenceTheorems, TLAPS

Rows == 1..Len(otps)

(* The rows, and what was done with each; an active code can be tried.     *)
OtpRows ==
  /\ otps \in Seq(OtpRequest) /\ accepted \in Seq(Nat) /\ guesses \in Seq(Nat)
  /\ Len(accepted) = Len(otps) /\ Len(guesses) = Len(otps)
  /\ \A i \in Rows : otps[i].status = "ACTIVE" => otps[i].attempts < MaxAttempts

LEMMA RowTypes ==
  ASSUME OtpRows
  PROVE  /\ Len(otps) \in Nat
         /\ \A i \in Rows : otps[i] \in OtpRequest /\ accepted[i] \in Nat /\ guesses[i] \in Nat
BY LenProperties, ElementOfSeq DEF OtpRows, Rows

(* Row i is as it was.                                                     *)
Same(i) == otps'[i] = otps[i] /\ accepted'[i] = accepted[i] /\ guesses'[i] = guesses[i]

SetRow(i, row) == /\ OtpRows' /\ Len(otps') = Len(otps)
                  /\ otps'[i] = row
                  /\ \A j \in Rows : j # i => Same(j)

-----------------------------------------------------------------------------
(* What the operations do to the rows.                                     *)

LEMMA ExpireRows ==
  ASSUME OtpRows, NEW q \in AuthRequests, ExpireActive(q)
  PROVE  /\ OtpRows' /\ Len(otps') = Len(otps)
         /\ \A i \in Rows :
              /\ accepted'[i] = accepted[i] /\ guesses'[i] = guesses[i]
              /\ otps'[i].attempts = otps[i].attempts /\ otps'[i].status # "ACTIVE"
              /\ otps'[i].status = IF otps[i].status = "ACTIVE" THEN "EXPIRED"
                                                                ELSE otps[i].status
<1> DEFINE f == [i \in 1..Len(otps) |->
                   IF otps[i].status = "ACTIVE" THEN [otps[i] EXCEPT !.status = "EXPIRED"]
                                                ELSE otps[i]]
<1>1. otps' = f /\ UNCHANGED <<accepted, guesses>>
  BY DEF ExpireActive
<1>2. f \in [1..Len(otps) -> OtpRequest] /\ Len(otps) \in Nat
  BY RowTypes DEF OtpRequest, OtpStatus, Rows
<1>3. f \in Seq(OtpRequest) /\ Len(f) = Len(otps)
  BY <1>2
<1>4. \A i \in Rows :
        /\ f[i].attempts = otps[i].attempts /\ f[i].status # "ACTIVE"
        /\ f[i].status = IF otps[i].status = "ACTIVE" THEN "EXPIRED" ELSE otps[i].status
  BY RowTypes DEF OtpRequest, Rows
<1> HIDE DEF f
<1> QED  BY <1>1, <1>3, <1>4 DEF OtpRows, Rows

LEMMA NewRow ==
  ASSUME OtpRows, NEW q \in AuthRequests, CreateOtp(q)
  PROVE  /\ OtpRows' /\ Len(otps') = Len(otps) + 1
         /\ \A i \in Rows : Same(i)
         /\ otps'[Len(otps')] = [status |-> "ACTIVE", attempts |-> 0, age |-> "fresh"]
         /\ accepted'[Len(otps')] = 0 /\ guesses'[Len(otps')] = 0
<1> DEFINE new == [status |-> "ACTIVE", attempts |-> 0, age |-> "fresh"]
<1>1. /\ otps' = Append(otps, new) /\ accepted' = Append(accepted, 0)
      /\ guesses' = Append(guesses, 0)
  BY DEF CreateOtp
<1>2. new \in OtpRequest /\ new.status = "ACTIVE" /\ new.attempts < MaxAttempts
  BY AuthBounds DEF OtpRequest, OtpStatus
<1> HIDE DEF new
<1>3. /\ otps' \in Seq(OtpRequest) /\ accepted' \in Seq(Nat) /\ guesses' \in Seq(Nat)
      /\ Len(otps') = Len(otps) + 1 /\ Len(accepted') = Len(otps) + 1
      /\ Len(guesses') = Len(otps) + 1
  BY <1>1, <1>2 DEF OtpRows
<1>4. /\ \A i \in Rows : Same(i)
      /\ otps'[Len(otps) + 1] = new /\ accepted'[Len(otps) + 1] = 0
      /\ guesses'[Len(otps) + 1] = 0
  BY <1>1, <1>2 DEF OtpRows, Rows, Same
<1>5. OtpRows'
  <2>1. ASSUME NEW i \in 1..Len(otps'), otps'[i].status = "ACTIVE"
        PROVE  otps'[i].attempts < MaxAttempts
    <3>1. i \in Rows \/ i = Len(otps) + 1
      BY <1>3, RowTypes DEF Rows
    <3>2. CASE i \in Rows
      BY <1>4, <2>1, <3>2 DEF OtpRows, Same
    <3>3. CASE i = Len(otps) + 1
      BY <1>2, <1>4, <3>3
    <3> QED  BY <3>1, <3>2, <3>3
  <2> QED  BY <1>3, <2>1 DEF OtpRows, Rows
<1> QED  BY <1>3, <1>4, <1>5 DEF new

(* One row is written.                                                     *)
LEMMA WriteRow ==
  ASSUME OtpRows, NEW i \in Rows, NEW row \in OtpRequest, otps' = [otps EXCEPT ![i] = row],
         row.status = "ACTIVE" => row.attempts < MaxAttempts,
         accepted' \in Seq(Nat), guesses' \in Seq(Nat),
         Len(accepted') = Len(otps), Len(guesses') = Len(otps),
         \A j \in Rows : j # i => accepted'[j] = accepted[j] /\ guesses'[j] = guesses[j]
  PROVE  SetRow(i, row)
<1>1. /\ otps' \in Seq(OtpRequest) /\ Len(otps') = Len(otps)
      /\ \A j \in Rows : otps'[j] = IF j = i THEN row ELSE otps[j]
  BY ExceptSeq DEF OtpRows, Rows
<1> QED  BY <1>1 DEF OtpRows, SetRow, Same, Rows

LEMMA CountRow ==
  ASSUME OtpRows, NEW i \in Rows, NEW c \in Seq(Nat), Len(c) = Len(otps)
  PROVE  /\ [c EXCEPT ![i] = @ + 1] \in Seq(Nat) /\ Len([c EXCEPT ![i] = @ + 1]) = Len(otps)
         /\ [c EXCEPT ![i] = @ + 1][i] = c[i] + 1
         /\ \A j \in Rows : j # i => [c EXCEPT ![i] = @ + 1][j] = c[j]
<1>1. c[i] \in Nat
  BY ElementOfSeq DEF Rows
<1>2. c[i] + 1 \in Nat
  BY <1>1
<1> QED  BY <1>2, ExceptSeq DEF Rows

(* The request that writes row i has read it.                              *)
HasRead(q) ==
  auth[q].step \in {"lapsed", "wrong", "right"} =>
    /\ auth[q].otp \in Rows
    /\ auth[q].step = "wrong" => auth[q].attempts < MaxAttempts

LEMMA LapseRow ==
  ASSUME OtpRows, NEW q \in AuthRequests, HasRead(q), MarkLapsed(q)
  PROVE  /\ auth[q].otp \in Rows
         /\ SetRow(auth[q].otp, [otps[auth[q].otp] EXCEPT !.status = "EXPIRED"])
         /\ UNCHANGED <<accepted, guesses>>
<1> DEFINE i == auth[q].otp
           row == [otps[i] EXCEPT !.status = "EXPIRED"]
<1>1. /\ i \in Rows /\ otps' = [otps EXCEPT ![i] = row] /\ UNCHANGED <<accepted, guesses>>
  BY DEF MarkLapsed, AuthAt, HasRead
<1>2. row \in OtpRequest /\ row.status = "EXPIRED"
  BY <1>1, RowTypes DEF OtpRequest, OtpStatus
<1> HIDE DEF row
<1>3. SetRow(i, row)
  BY <1>1, <1>2, WriteRow DEF OtpRows, SetRow
<1> QED  BY <1>1, <1>3 DEF row

LEMMA RefuseRow ==
  ASSUME OtpRows, NEW q \in AuthRequests, HasRead(q), auth[q].attempts \in Nat, RefuseCode(q)
  PROVE  LET i == auth[q].otp
             next == auth[q].attempts + 1
         IN  /\ i \in Rows
             /\ SetRow(i, [otps[i] EXCEPT !.attempts = next, !.status =
                             IF next >= MaxAttempts THEN "LOCKED" ELSE "ACTIVE"])
             /\ guesses'[i] = guesses[i] + 1 /\ UNCHANGED accepted
<1> DEFINE i == auth[q].otp
           next == auth[q].attempts + 1
           row == [otps[i] EXCEPT !.attempts = next, !.status =
                     IF next >= MaxAttempts THEN "LOCKED" ELSE "ACTIVE"]
<1>1. /\ i \in Rows /\ otps' = [otps EXCEPT ![i] = row] /\ UNCHANGED accepted
      /\ guesses' = [guesses EXCEPT ![i] = @ + 1]
  BY DEF RefuseCode, AuthAt, HasRead
<1>2. next \in 0..MaxAttempts
  BY AuthBounds DEF HasRead, RefuseCode, AuthAt
<1>3. row \in OtpRequest /\ (row.status = "ACTIVE" => row.attempts < MaxAttempts)
  <2>1. otps[i] \in OtpRequest
    BY <1>1, RowTypes
  <2>2. row \in OtpRequest
    BY <1>2, <2>1 DEF OtpRequest, OtpStatus
  <2>3. /\ row.attempts = next
        /\ row.status = IF next >= MaxAttempts THEN "LOCKED" ELSE "ACTIVE"
    BY <2>1 DEF OtpRequest
  <2> QED  BY <1>2, <2>2, <2>3, AuthBounds
<1> HIDE DEF row
<1>4. /\ guesses' \in Seq(Nat) /\ Len(guesses') = Len(otps) /\ guesses'[i] = guesses[i] + 1
      /\ \A j \in Rows : j # i => guesses'[j] = guesses[j]
  BY <1>1, CountRow DEF OtpRows
<1>5. SetRow(i, row)
  BY <1>1, <1>3, <1>4, WriteRow DEF OtpRows, SetRow
<1> QED  BY <1>1, <1>4, <1>5 DEF row

LEMMA AcceptRow ==
  ASSUME OtpRows, NEW q \in AuthRequests, HasRead(q), AcceptCode(q)
  PROVE  LET i == auth[q].otp
         IN  /\ i \in Rows
             /\ SetRow(i, [otps[i] EXCEPT !.status = "USED"])
             /\ accepted'[i] = accepted[i] + 1 /\ UNCHANGED guesses
<1> DEFINE i == auth[q].otp
           row == [otps[i] EXCEPT !.status = "USED"]
<1>1. /\ i \in Rows /\ otps' = [otps EXCEPT ![i] = row] /\ UNCHANGED guesses
      /\ accepted' = [accepted EXCEPT ![i] = @ + 1]
  BY DEF AcceptCode, AuthAt, HasRead
<1>2. row \in OtpRequest /\ row.status = "USED"
  BY <1>1, RowTypes DEF OtpRequest, OtpStatus
<1> HIDE DEF row
<1>3. /\ accepted' \in Seq(Nat) /\ Len(accepted') = Len(otps) /\ accepted'[i] = accepted[i] + 1
      /\ \A j \in Rows : j # i => accepted'[j] = accepted[j]
  BY <1>1, CountRow DEF OtpRows
<1>4. SetRow(i, row)
  BY <1>1, <1>2, <1>3, WriteRow DEF OtpRows, SetRow
<1> QED  BY <1>1, <1>3, <1>4 DEF row

LEMMA AgeRow ==
  ASSUME OtpRows, Ages
  PROVE  /\ OtpRows' /\ Len(otps') = Len(otps) /\ UNCHANGED <<accepted, guesses>>
         /\ \A i \in Rows : /\ otps'[i].status = otps[i].status
                            /\ otps'[i].attempts = otps[i].attempts
<1>1. PICK i \in Rows, age \in {"cooled", "lapsed"} : otps' = [otps EXCEPT ![i].age = age]
  BY DEF Ages, Rows
<1>2. UNCHANGED <<accepted, guesses>>
  BY DEF Ages
<1> DEFINE row == [otps[i] EXCEPT !.age = age]
<1>3. /\ otps' = [otps EXCEPT ![i] = row] /\ row \in OtpRequest
      /\ row.status = otps[i].status /\ row.attempts = otps[i].attempts
  BY <1>1, RowTypes DEF OtpRequest
<1> HIDE DEF row
<1>4. SetRow(i, row)
  BY <1>2, <1>3, WriteRow DEF OtpRows, SetRow
<1> QED  BY <1>2, <1>3, <1>4 DEF SetRow, Same

-----------------------------------------------------------------------------
(* Types                                                                   *)

TypeInv ==
  /\ user \in UserStatus
  /\ ownsWallet \in BOOLEAN /\ unlocked \in BOOLEAN /\ authorized \in BOOLEAN
  /\ authOverlapped \in BOOLEAN
  /\ OtpRows
  /\ auth \in [AuthRequests -> Auth]
  /\ \A q \in AuthRequests : HasRead(q)
  /\ authFaults \in 0..MaxAuthFaults

(* No row is lost, and no acceptance forgotten.                            *)
LEMMA RowsGrow ==
  ASSUME TypeInv, [AuthNext]_authVars
  PROVE  /\ OtpRows' /\ Len(otps') >= Len(otps)
         /\ \A i \in Rows : accepted'[i] >= accepted[i]
<1>t. /\ OtpRows /\ Len(otps) \in Nat /\ \A i \in Rows : accepted[i] \in Nat
      /\ \A q \in AuthRequests : HasRead(q) /\ auth[q].attempts \in Nat
  BY RowTypes, AuthBounds DEF TypeInv, Auth
<1>1. CASE UNCHANGED otpVars
  BY <1>1, <1>t DEF otpVars, OtpRows, Rows
<1>2. ASSUME NEW q \in AuthRequests, ExpireActive(q)
      PROVE  OtpRows' /\ Len(otps') = Len(otps) /\ UNCHANGED accepted
  BY <1>2, <1>t, ExpireRows DEF ExpireActive
<1>3. ASSUME NEW q \in AuthRequests, CreateOtp(q)
      PROVE  /\ OtpRows' /\ Len(otps') = Len(otps) + 1
             /\ \A i \in Rows : accepted'[i] = accepted[i]
  BY <1>3, <1>t, NewRow DEF Same
<1>4. ASSUME NEW q \in AuthRequests, MarkLapsed(q)
      PROVE  OtpRows' /\ Len(otps') = Len(otps) /\ UNCHANGED accepted
  BY <1>4, <1>t, LapseRow DEF SetRow
<1>5. ASSUME NEW q \in AuthRequests, RefuseCode(q)
      PROVE  OtpRows' /\ Len(otps') = Len(otps) /\ UNCHANGED accepted
  BY <1>5, <1>t, RefuseRow DEF SetRow
<1>6. ASSUME NEW q \in AuthRequests, AcceptCode(q)
      PROVE  /\ OtpRows' /\ Len(otps') = Len(otps)
             /\ \A i \in Rows : accepted'[i] >= accepted[i]
  <2> DEFINE i == auth[q].otp
  <2>1. /\ i \in Rows /\ OtpRows' /\ Len(otps') = Len(otps)
        /\ accepted'[i] = accepted[i] + 1
        /\ \A j \in Rows : j # i => accepted'[j] = accepted[j]
    BY <1>6, <1>t, AcceptRow DEF SetRow, Same
  <2> HIDE DEF i
  <2> QED  BY <1>t, <2>1
<1>7. CASE Ages
  BY <1>7, <1>t, AgeRow
<1>8. ASSUME NEW q \in AuthRequests,
             \/ BeginRegister(q) \/ CreateUser(q) \/ CreateWallet(q) \/ BeginResend(q)
             \/ BeginVerify(q) \/ ActivateUser(q) \/ SignToken(q) \/ BeginLogin(q)
             \/ CrashAuth(q)
      PROVE  UNCHANGED otpVars
  BY <1>8 DEF BeginRegister, CreateUser, CreateWallet, BeginResend, BeginVerify, ActivateUser,
              SignToken, BeginLogin, CrashAuth, otpVars
<1>9. CASE LockUser \/ UNCHANGED authVars
  BY <1>9, <1>1 DEF LockUser, authVars, otpVars
<1> QED
  BY <1>t, <1>1, <1>2, <1>3, <1>4, <1>5, <1>6, <1>7, <1>8, <1>9 DEF AuthNext, AuthStep

(* Only q moves, to a step that needs no row.                              *)
MovesTo(q, step) == /\ auth' \in [AuthRequests -> Auth]
                    /\ auth'[q].step = step
                    /\ \A p \in AuthRequests : p # q => auth'[p] = auth[p]

LEMMA Moving ==
  ASSUME TypeInv, NEW q \in AuthRequests
  PROVE  /\ \A step \in AuthSteps : AuthGoes(q, step) => MovesTo(q, step)
         /\ AuthEnds(q) => MovesTo(q, "ended")
<1>1. auth \in [AuthRequests -> Auth]
  BY DEF TypeInv
<1>2. ASSUME NEW step \in AuthSteps, AuthGoes(q, step) PROVE MovesTo(q, step)
  <2>1. [auth[q] EXCEPT !.step = step] \in Auth
    BY <1>1 DEF Auth
  <2> QED  BY <1>1, <1>2, <2>1 DEF AuthGoes, MovesTo, Auth
<1>3. ASSUME AuthEnds(q) PROVE MovesTo(q, "ended")
  <2>1. AuthResting("ended") \in Auth /\ AuthResting("ended").step = "ended"
    BY AuthBounds DEF AuthResting, Auth, AuthSteps
  <2> QED  BY <1>1, <1>3, <2>1 DEF AuthEnds, MovesTo
<1> QED  BY <1>2, <1>3

LEMMA Verifying ==
  ASSUME TypeInv, NEW q \in AuthRequests, BeginVerify(q)
  PROVE  /\ HasRead(q)'
         /\ \E step \in {"lapsed", "wrong", "right"} : MovesTo(q, step)
         /\ auth'[q].otp \in Rows /\ otps[auth'[q].otp].status = "ACTIVE"
         /\ auth'[q].attempts = otps[auth'[q].otp].attempts
<1>1. PICK i \in Rows, step \in {"lapsed", "wrong", "right"} :
        /\ otps[i].status = "ACTIVE"
        /\ auth' = [auth EXCEPT ![q] = [step |-> step, otp |-> i,
                                        attempts |-> otps[i].attempts]]
  BY DEF BeginVerify, ActiveOtps, Rows
<1>2. /\ OtpRows /\ otps[i] \in OtpRequest /\ auth \in [AuthRequests -> Auth]
      /\ Len(otps) \in Nat /\ otps[i].attempts < MaxAttempts
  BY <1>1, RowTypes DEF TypeInv, OtpRows
<1>3. [step |-> step, otp |-> i, attempts |-> otps[i].attempts] \in Auth
  BY <1>2 DEF Auth, AuthSteps, OtpRequest, Rows
<1>4. UNCHANGED otps
  BY DEF BeginVerify, otpVars
<1> QED  BY <1>1, <1>2, <1>3, <1>4 DEF MovesTo, HasRead, Rows

LEMMA TypeInit == AuthInit => TypeInv
<1> SUFFICES ASSUME AuthInit PROVE TypeInv
  OBVIOUS
<1>1. /\ user \in UserStatus /\ ownsWallet \in BOOLEAN /\ unlocked \in BOOLEAN
      /\ authorized \in BOOLEAN /\ authOverlapped \in BOOLEAN
  BY DEF AuthInit, UserStatus
<1>2. otps = <<>> /\ accepted = <<>> /\ guesses = <<>>
  BY DEF AuthInit
<1>3. OtpRows
  BY <1>2 DEF OtpRows, Rows
<1>4. auth \in [AuthRequests -> Auth] /\ \A q \in AuthRequests : HasRead(q)
  BY AuthBounds DEF AuthInit, AuthResting, Auth, AuthSteps, HasRead
<1>5. authFaults \in 0..MaxAuthFaults
  BY AuthBounds DEF AuthInit
<1> QED  BY <1>1, <1>3, <1>4, <1>5 DEF TypeInv

LEMMA TypeStep == TypeInv /\ [AuthNext]_authVars => TypeInv'
<1> SUFFICES ASSUME TypeInv, [AuthNext]_authVars PROVE TypeInv'
  OBVIOUS
<1>r. /\ OtpRows' /\ \A p \in AuthRequests : auth'[p] = auth[p] => HasRead(p)'
      /\ \A p \in AuthRequests :
           auth'[p].step \notin {"lapsed", "wrong", "right"} => HasRead(p)'
  <2>1. OtpRows' /\ Len(otps) \in Nat /\ Len(otps') \in Nat /\ Len(otps') >= Len(otps)
    BY RowsGrow, LenProperties DEF TypeInv, OtpRows
  <2> QED  BY <2>1 DEF TypeInv, HasRead, Rows
<1>b. authOverlapped \in BOOLEAN /\ (authOverlapped \/ AuthInFlight # {}) \in BOOLEAN
  BY DEF TypeInv
<1>k. ASSUME user' \in UserStatus, ownsWallet' \in BOOLEAN, unlocked' \in BOOLEAN,
             authorized' \in BOOLEAN, authOverlapped' \in BOOLEAN,
             authFaults' \in 0..MaxAuthFaults,
             \/ UNCHANGED auth
             \/ \E q \in AuthRequests, step \in AuthSteps \ {"lapsed", "wrong", "right"} :
                  MovesTo(q, step)
             \/ \E q \in AuthRequests, step \in AuthSteps : MovesTo(q, step) /\ HasRead(q)'
      PROVE  TypeInv'
  BY <1>k, <1>r DEF TypeInv, MovesTo
<1>m. ASSUME NEW q \in AuthRequests, NEW step \in AuthSteps \ {"lapsed", "wrong", "right"},
             AuthGoes(q, step) \/ (step = "ended" /\ AuthEnds(q))
      PROVE  MovesTo(q, step)
  BY <1>m, Moving
<1> USE DEF UserStatus, AuthSteps, userVars, AuthAt, AuthArrives
<1>1. ASSUME NEW q \in AuthRequests, BeginRegister(q) PROVE TypeInv'
  BY <1>1, <1>b, <1>k, <1>m DEF BeginRegister, TypeInv
<1>2. ASSUME NEW q \in AuthRequests, CreateUser(q) PROVE TypeInv'
  BY <1>2, <1>k, <1>m DEF CreateUser, TypeInv
<1>3. ASSUME NEW q \in AuthRequests, CreateWallet(q) PROVE TypeInv'
  BY <1>3, <1>k, <1>m DEF CreateWallet, TypeInv
<1>4. ASSUME NEW q \in AuthRequests, BeginResend(q) \/ BeginLogin(q) PROVE TypeInv'
  BY <1>4, <1>b, <1>k, <1>m DEF BeginResend, BeginLogin, TypeInv
<1>5. ASSUME NEW q \in AuthRequests, ExpireActive(q) PROVE TypeInv'
  BY <1>5, <1>k, <1>m DEF ExpireActive, TypeInv
<1>6. ASSUME NEW q \in AuthRequests,
             CreateOtp(q) \/ MarkLapsed(q) \/ RefuseCode(q) \/ SignToken(q)
      PROVE  TypeInv'
  BY <1>6, <1>k, <1>m DEF CreateOtp, MarkLapsed, RefuseCode, SignToken, TypeInv
<1>7. ASSUME NEW q \in AuthRequests, BeginVerify(q) PROVE TypeInv'
  BY <1>7, <1>b, <1>k, Verifying DEF BeginVerify, TypeInv
<1>8. ASSUME NEW q \in AuthRequests, AcceptCode(q) PROVE TypeInv'
  BY <1>8, <1>k, <1>m DEF AcceptCode, TypeInv
<1>9. ASSUME NEW q \in AuthRequests, ActivateUser(q) PROVE TypeInv'
  BY <1>9, <1>k, <1>m DEF ActivateUser, TypeInv
<1>10. ASSUME NEW q \in AuthRequests, CrashAuth(q) PROVE TypeInv'
  <2>1. authFaults' \in 0..MaxAuthFaults
    BY <1>10, AuthBounds DEF CrashAuth, AuthFault, TypeInv
  <2> QED  BY <1>10, <1>k, <1>m, <2>1 DEF CrashAuth, TypeInv
<1>11. CASE LockUser
  <2>1. unlocked' \in BOOLEAN
    BY <1>11, Zenon DEF LockUser, TypeInv
  <2> QED  BY <1>11, <1>k, <2>1 DEF LockUser, TypeInv
<1>12. CASE Ages
  BY <1>12, <1>k DEF Ages, TypeInv
<1>13. CASE UNCHANGED authVars
  BY <1>13, <1>k DEF authVars, TypeInv
<1> QED
  BY <1>1, <1>2, <1>3, <1>4, <1>5, <1>6, <1>7, <1>8, <1>9, <1>10, <1>11, <1>12, <1>13
  DEF AuthNext, AuthStep

-----------------------------------------------------------------------------
(* Tokens                                                                  *)

(* Being ACTIVE, being about to be, and holding a token rest on the same.  *)
Proven ==
  /\ user = "ACTIVE" => Verified
  /\ authorized => Verified
  /\ \A q \in AuthRequests : auth[q].step \in {"activating", "tokening"} => Verified

LEMMA VerifiedStays == TypeInv /\ [AuthNext]_authVars /\ Verified => Verified'
<1> SUFFICES ASSUME TypeInv, [AuthNext]_authVars, Verified PROVE Verified'
  OBVIOUS
<1>1. CASE unlocked
  <2>1. ASSUME UNCHANGED unlocked PROVE Verified'
    BY <1>1, <2>1, Zenon DEF Verified
  <2>2. CASE LockUser
    BY <1>1, <2>2, Zenon DEF LockUser, Verified
  <2>3. CASE UNCHANGED authVars
    BY <2>1, <2>3, Zenon DEF authVars
  <2>4. ASSUME NEW q \in AuthRequests, AuthStep(q) PROVE UNCHANGED unlocked
    BY <2>4 DEF AuthStep, BeginRegister, CreateUser, CreateWallet, BeginResend, ExpireActive,
                CreateOtp, BeginVerify, MarkLapsed, RefuseCode, AcceptCode, ActivateUser,
                SignToken, BeginLogin, CrashAuth, userVars
  <2>5. CASE Ages
    BY <2>1, <2>5 DEF Ages, userVars
  <2> QED  BY <2>1, <2>2, <2>3, <2>4, <2>5 DEF AuthNext
<1>2. CASE \E i \in 1..Len(accepted) : accepted[i] > 0
  <2>1. PICK i \in Rows : accepted[i] > 0
    BY <1>2 DEF TypeInv, OtpRows, Rows
  <2>2. /\ OtpRows /\ OtpRows' /\ Len(otps') >= Len(otps) /\ accepted'[i] >= accepted[i]
    BY <2>1, RowsGrow DEF TypeInv
  <2>3. /\ Len(otps) \in Nat /\ Len(otps') \in Nat /\ accepted[i] \in Nat
        /\ Len(accepted') = Len(otps')
    BY <2>1, <2>2, RowTypes, LenProperties DEF OtpRows
  <2>4. i \in 1..Len(accepted')
    BY <2>1, <2>2, <2>3 DEF Rows
  <2>5. accepted'[i] \in Nat
    BY <2>2, <2>4, ElementOfSeq DEF OtpRows
  <2>6. accepted'[i] > 0
    BY <2>1, <2>2, <2>3, <2>5
  <2> QED  BY <2>4, <2>6 DEF Verified
<1> QED  BY <1>1, <1>2 DEF Verified

LEMMA ProvenInit == AuthInit => Proven
BY DEF AuthInit, AuthResting, Proven

LEMMA ProvenStep == TypeInv /\ Proven /\ [AuthNext]_authVars => Proven'
<1> SUFFICES ASSUME TypeInv, Proven, [AuthNext]_authVars PROVE Proven'
  OBVIOUS
<1>v. Verified => Verified'
  BY VerifiedStays
<1>1. ASSUME Verified' PROVE Proven'
  BY <1>1, Zenon DEF Proven
<1>2. CASE Verified
  BY <1>v, <1>1, <1>2
<1>3. CASE ~Verified
  <2>1. /\ user # "ACTIVE" /\ ~authorized
        /\ \A q \in AuthRequests : auth[q].step \notin {"activating", "tokening"}
    BY <1>3, Zenon DEF Proven
  <2>k. ASSUME user' # "ACTIVE", UNCHANGED authorized,
               \/ UNCHANGED auth
               \/ \E q \in AuthRequests, step \in AuthSteps \ {"activating", "tokening"} :
                    MovesTo(q, step)
        PROVE  Proven'
    <3>1. \A q \in AuthRequests : auth'[q].step \notin {"activating", "tokening"}
      BY <2>1, <2>k DEF MovesTo
    <3>2. ~authorized'
      BY <2>1, <2>k
    <3> QED  BY <2>k, <3>1, <3>2, Zenon DEF Proven
  <2>m. ASSUME NEW q \in AuthRequests, NEW step \in AuthSteps,
               AuthGoes(q, step) \/ (step = "ended" /\ AuthEnds(q))
        PROVE  MovesTo(q, step)
    BY <2>m, Moving
  <2> USE DEF AuthSteps, userVars, AuthAt, AuthArrives
  <2>2. ASSUME NEW q \in AuthRequests, AcceptCode(q) PROVE Proven'
    <3> DEFINE i == auth[q].otp
    <3>1. /\ i \in Rows /\ OtpRows' /\ Len(otps') = Len(otps)
          /\ accepted'[i] = accepted[i] + 1
      BY <2>2, AcceptRow DEF SetRow, TypeInv
    <3>2. accepted[i] \in Nat
      BY <3>1, RowTypes DEF TypeInv
    <3>3. i \in 1..Len(accepted') /\ accepted'[i] > 0
      BY <3>1, <3>2 DEF OtpRows, Rows
    <3> QED  BY <1>1, <3>3 DEF Verified
  <2>3. ASSUME NEW q \in AuthRequests, BeginVerify(q) PROVE Proven'
    BY <2>1, <2>3, <2>k, Verifying DEF BeginVerify
  <2>4. ASSUME NEW q \in AuthRequests,
               \/ BeginRegister(q) \/ CreateUser(q) \/ CreateWallet(q) \/ BeginResend(q)
               \/ ExpireActive(q) \/ CreateOtp(q) \/ MarkLapsed(q) \/ RefuseCode(q)
               \/ CrashAuth(q)
        PROVE  Proven'
    BY <2>1, <2>4, <2>k, <2>m
    DEF BeginRegister, CreateUser, CreateWallet, BeginResend, ExpireActive, CreateOtp,
        MarkLapsed, RefuseCode, CrashAuth
  <2>5. ASSUME NEW q \in AuthRequests, ActivateUser(q) \/ SignToken(q) \/ BeginLogin(q)
        PROVE  FALSE
    BY <2>1, <2>5 DEF ActivateUser, SignToken, BeginLogin
  <2>6. CASE LockUser
    <3>1. CASE user' = "ACTIVE"
      BY <1>1, <2>6, <3>1, Zenon DEF LockUser, Verified
    <3>2. CASE user' # "ACTIVE"
      BY <2>6, <2>k, <3>2 DEF LockUser
    <3> QED  BY <3>1, <3>2
  <2>7. CASE Ages \/ UNCHANGED authVars
    BY <2>1, <2>7, <2>k DEF Ages, authVars
  <2> QED
    BY <2>2, <2>3, <2>4, <2>5, <2>6, <2>7 DEF AuthNext, AuthStep
<1> QED  BY <1>2, <1>3

-----------------------------------------------------------------------------
(* Wallets                                                                 *)

LEMMA WalletInit == AuthInit => RegisteredHasWallet
BY DEF AuthInit, RegisteredHasWallet

LEMMA WalletStep == TypeInv /\ RegisteredHasWallet /\ [AuthNext]_authVars => RegisteredHasWallet'
<1> SUFFICES ASSUME TypeInv, RegisteredHasWallet, [AuthNext]_authVars
             PROVE  RegisteredHasWallet'
  OBVIOUS
<1>t. authFaults \in Nat /\ ownsWallet \in BOOLEAN
  BY AuthBounds DEF TypeInv
(* The request that owes the wallet does not move.                         *)
<1>k. ASSUME UNCHANGED <<ownsWallet, authFaults>>, user' # "none" => user # "none",
             \/ UNCHANGED auth
             \/ \E q \in AuthRequests, step \in AuthSteps :
                  MovesTo(q, step) /\ auth[q].step # "needsWallet"
      PROVE  RegisteredHasWallet'
  BY <1>k DEF RegisteredHasWallet, MovesTo
<1>m. ASSUME NEW q \in AuthRequests, NEW step \in AuthSteps,
             AuthGoes(q, step) \/ (step = "ended" /\ AuthEnds(q))
      PROVE  MovesTo(q, step)
  BY <1>m, Moving
<1> USE DEF AuthSteps, userVars, AuthAt, AuthArrives
<1>1. ASSUME NEW q \in AuthRequests, CreateUser(q) PROVE RegisteredHasWallet'
  <2>1. CASE user = "none"
    <3>1. MovesTo(q, "needsWallet")
      BY <1>1, <1>m, <2>1 DEF CreateUser
    <3> QED  BY <3>1 DEF RegisteredHasWallet, MovesTo
  <2>2. CASE user # "none"
    BY <1>1, <1>k, <1>m, <2>2 DEF CreateUser
  <2> QED  BY <2>1, <2>2
<1>2. ASSUME NEW q \in AuthRequests, CreateWallet(q) PROVE RegisteredHasWallet'
  BY <1>2 DEF CreateWallet, RegisteredHasWallet
<1>3. ASSUME NEW q \in AuthRequests, BeginVerify(q) PROVE RegisteredHasWallet'
  BY <1>3, <1>k, Verifying DEF BeginVerify
<1>4. ASSUME NEW q \in AuthRequests,
             \/ BeginRegister(q) \/ BeginResend(q) \/ ExpireActive(q) \/ CreateOtp(q)
             \/ MarkLapsed(q) \/ RefuseCode(q) \/ AcceptCode(q) \/ ActivateUser(q)
             \/ SignToken(q) \/ BeginLogin(q)
      PROVE  RegisteredHasWallet'
  BY <1>4, <1>k, <1>m
  DEF BeginRegister, BeginResend, ExpireActive, CreateOtp, MarkLapsed, RefuseCode, AcceptCode,
      ActivateUser, SignToken, BeginLogin
<1>5. ASSUME NEW q \in AuthRequests, CrashAuth(q) PROVE RegisteredHasWallet'
  BY <1>5, <1>t DEF CrashAuth, AuthFault, RegisteredHasWallet
<1>6. CASE LockUser
  BY <1>6, <1>k DEF LockUser
<1>7. CASE Ages \/ UNCHANGED authVars
  BY <1>7, <1>k DEF Ages, authVars
<1> QED
  BY <1>1, <1>2, <1>3, <1>4, <1>5, <1>6, <1>7 DEF AuthNext, AuthStep

-----------------------------------------------------------------------------
(* Codes                                                                   *)

Busy(q) == auth[q].step \notin {"idle", "ended"}

RowAgrees(i) ==
  /\ otps[i].status = "ACTIVE" => i = Len(otps)
  /\ accepted[i] <= 1
  /\ accepted[i] = 1 <=> otps[i].status = "USED"
  /\ otps[i].attempts = guesses[i]
  /\ otps[i].status = "LOCKED" <=> guesses[i] = MaxAttempts

(* What a request that meets no other knows of the rows.                   *)
Knows(q) ==
  /\ auth[q].step = "creating" => \A i \in Rows : otps[i].status # "ACTIVE"
  /\ auth[q].step \in {"lapsed", "wrong", "right"} =>
       /\ otps[auth[q].otp].status = "ACTIVE"
       /\ auth[q].attempts = otps[auth[q].otp].attempts

Codes ==
  ~authOverlapped =>
    /\ \A i \in Rows : RowAgrees(i)
    /\ \A q \in AuthRequests : Knows(q) /\ \A p \in AuthRequests : Busy(p) /\ Busy(q) => p = q

(* A step of one request, which starts or goes on.                         *)
LEMMA OneBusy ==
  ASSUME TypeInv, Codes, NEW q \in AuthRequests, NEW step \in AuthSteps, MovesTo(q, step),
         AuthArrives(q) \/ (Busy(q) /\ UNCHANGED authOverlapped),
         ~authOverlapped => (\A i \in Rows : RowAgrees(i))' /\ Knows(q)'
  PROVE  Codes'
<1> SUFFICES ASSUME ~authOverlapped' PROVE Codes'
  BY DEF Codes
<1>1. ~authOverlapped /\ \A p \in AuthRequests : p # q => ~Busy(p)
  <2>1. CASE AuthArrives(q)
    <3>1. ~authOverlapped /\ AuthInFlight = {}
      BY <2>1, Zenon DEF AuthArrives
    <3> QED  BY <3>1 DEF AuthInFlight, Busy
  <2>2. CASE Busy(q) /\ UNCHANGED authOverlapped
    BY <2>2 DEF Codes
  <2> QED  BY <2>1, <2>2
<1>2. (\A i \in Rows : RowAgrees(i))' /\ Knows(q)'
  BY <1>1
<1>3. \A p \in AuthRequests : p # q => ~Busy(p)' /\ Knows(p)'
  BY <1>1 DEF MovesTo, Busy, Knows
<1>4. ASSUME NEW p \in AuthRequests, NEW r \in AuthRequests, Busy(p)', Busy(r)' PROVE p = r
  BY <1>3, <1>4
<1>5. \A p \in AuthRequests : Knows(p)'
  BY <1>2, <1>3
<1> QED  BY <1>2, <1>4, <1>5 DEF Codes

(* One that leaves the rows alone, and needs none.                         *)
LEMMA OneMoves ==
  ASSUME TypeInv, Codes, NEW q \in AuthRequests,
         NEW step \in AuthSteps \ {"creating", "lapsed", "wrong", "right"}, MovesTo(q, step),
         AuthArrives(q) \/ (Busy(q) /\ UNCHANGED authOverlapped),
         UNCHANGED otpVars
  PROVE  Codes'
<1>1. Knows(q)'
  BY DEF MovesTo, Knows
<1>2. ~authOverlapped => (\A i \in Rows : RowAgrees(i))'
  BY DEF Codes, Rows, RowAgrees, otpVars
<1> QED  BY <1>1, <1>2, OneBusy

LEMMA CodesInit == AuthInit => Codes
<1> SUFFICES ASSUME AuthInit PROVE Codes
  OBVIOUS
<1>1. otps = <<>> /\ \A q \in AuthRequests : auth[q].step = "idle"
  BY DEF AuthInit, AuthResting
<1>2. Rows = {}
  BY <1>1 DEF Rows
<1> QED  BY <1>1, <1>2 DEF Codes, Knows, Busy

LEMMA CodesStep == TypeInv /\ Codes /\ [AuthNext]_authVars => Codes'
<1> SUFFICES ASSUME TypeInv, Codes, [AuthNext]_authVars PROVE Codes'
  OBVIOUS
<1>t. /\ OtpRows /\ Len(otps) \in Nat /\ \A q \in AuthRequests : HasRead(q)
      /\ \A q \in AuthRequests : auth[q].attempts \in 0..MaxAttempts
      /\ \A i \in Rows : otps[i] \in OtpRequest /\ accepted[i] \in Nat /\ guesses[i] \in Nat
  BY RowTypes DEF TypeInv, Auth
<1>m. ASSUME NEW q \in AuthRequests, NEW step \in AuthSteps,
             AuthGoes(q, step) \/ (step = "ended" /\ AuthEnds(q))
      PROVE  MovesTo(q, step)
  BY <1>m, Moving
<1>1. ASSUME NEW q \in AuthRequests, BeginRegister(q) \/ BeginResend(q) \/ BeginLogin(q)
      PROVE  Codes'
  <2>1. /\ UNCHANGED otpVars /\ AuthArrives(q)
        /\ \E step \in {"hashing", "resending", "tokening"} : AuthGoes(q, step)
    BY <1>1 DEF BeginRegister, BeginResend, BeginLogin
  <2>2. PICK step \in {"hashing", "resending", "tokening"} : MovesTo(q, step)
    BY <1>m, <2>1 DEF AuthSteps
  <2> QED  BY <2>1, <2>2, OneMoves DEF AuthSteps
<1>2. ASSUME NEW q \in AuthRequests,
             CreateUser(q) \/ CreateWallet(q) \/ ActivateUser(q) \/ SignToken(q)
      PROVE  Codes'
  <2>1. /\ UNCHANGED otpVars /\ Busy(q) /\ UNCHANGED authOverlapped
        /\ \E step \in {"needsWallet", "expiring", "tokening", "ended"} :
             AuthGoes(q, step) \/ (step = "ended" /\ AuthEnds(q))
    BY <1>2 DEF CreateUser, CreateWallet, ActivateUser, SignToken, AuthAt, Busy
  <2>2. PICK step \in {"needsWallet", "expiring", "tokening", "ended"} : MovesTo(q, step)
    BY <1>m, <2>1 DEF AuthSteps
  <2> QED  BY <2>1, <2>2, OneMoves DEF AuthSteps
<1>3. ASSUME NEW q \in AuthRequests, CrashAuth(q) PROVE Codes'
  <2>1. UNCHANGED otpVars /\ Busy(q) /\ UNCHANGED authOverlapped
    BY <1>3 DEF CrashAuth, AuthInFlight, Busy
  <2>2. MovesTo(q, "ended")
    BY <1>3, <1>m DEF CrashAuth, AuthSteps
  <2> QED  BY <2>1, <2>2, OneMoves DEF AuthSteps
<1>4. ASSUME NEW q \in AuthRequests, BeginVerify(q) PROVE Codes'
  <2>1. PICK step \in {"lapsed", "wrong", "right"} : MovesTo(q, step)
    BY <1>4, Verifying
  <2>2. UNCHANGED otpVars /\ AuthArrives(q)
    BY <1>4 DEF BeginVerify
  <2>3. Knows(q)'
    BY <1>4, <2>1, <2>2, Verifying DEF Knows, MovesTo, otpVars
  <2>4. ~authOverlapped => (\A i \in Rows : RowAgrees(i))'
    BY <2>2 DEF Codes, Rows, RowAgrees, otpVars
  <2> QED  BY <2>1, <2>2, <2>3, <2>4, OneBusy DEF AuthSteps
<1>5. ASSUME NEW q \in AuthRequests, ExpireActive(q) PROVE Codes'
  <2>1. /\ Busy(q) /\ UNCHANGED authOverlapped
        /\ \E step \in {"expiring", "creating"} : AuthGoes(q, step)
    BY <1>5 DEF ExpireActive, AuthAt, Busy
  <2>2. PICK step \in {"expiring", "creating"} : MovesTo(q, step)
    BY <1>m, <2>1 DEF AuthSteps
  <2>3. Len(otps') = Len(otps) /\ \A i \in Rows :
          /\ accepted'[i] = accepted[i] /\ guesses'[i] = guesses[i]
          /\ otps'[i].attempts = otps[i].attempts /\ otps'[i].status # "ACTIVE"
          /\ otps'[i].status = IF otps[i].status = "ACTIVE" THEN "EXPIRED"
                                                            ELSE otps[i].status
    BY <1>5, <1>t, ExpireRows
  <2>4. Knows(q)'
    BY <2>2, <2>3 DEF Knows, Rows, MovesTo
  <2>5. ASSUME ~authOverlapped, NEW i \in Rows' PROVE RowAgrees(i)'
    <3>1. i \in Rows /\ RowAgrees(i)
      BY <2>3, <2>5 DEF Codes, Rows
    <3> QED  BY <2>3, <3>1 DEF RowAgrees
  <2> QED  BY <2>1, <2>2, <2>4, <2>5, OneBusy DEF AuthSteps
<1>6. ASSUME NEW q \in AuthRequests, CreateOtp(q) PROVE Codes'
  <2>1. Busy(q) /\ UNCHANGED authOverlapped /\ MovesTo(q, "ended") /\ auth[q].step = "creating"
    BY <1>6, <1>m DEF CreateOtp, AuthAt, Busy, AuthSteps
  <2>2. /\ Len(otps') = Len(otps) + 1 /\ \A i \in Rows : Same(i)
        /\ otps'[Len(otps')] = [status |-> "ACTIVE", attempts |-> 0, age |-> "fresh"]
        /\ accepted'[Len(otps')] = 0 /\ guesses'[Len(otps')] = 0
    BY <1>6, <1>t, NewRow
  <2>3. Knows(q)'
    BY <2>1 DEF Knows, MovesTo
  <2>4. ASSUME ~authOverlapped, NEW i \in Rows' PROVE RowAgrees(i)'
    <3>1. i \in Rows \/ i = Len(otps')
      BY <1>t, <2>2 DEF Rows
    <3>2. CASE i \in Rows
      <4>1. RowAgrees(i) /\ Same(i) /\ otps[i].status # "ACTIVE"
        BY <2>1, <2>2, <2>4, <3>2 DEF Codes, Knows
      <4> QED  BY <4>1 DEF RowAgrees, Same
    <3>3. CASE i = Len(otps')
      BY <2>2, <3>3, AuthBounds DEF RowAgrees
    <3> QED  BY <3>1, <3>2, <3>3
  <2> QED  BY <2>1, <2>3, <2>4, OneBusy DEF AuthSteps
(* Writing one row: the others stay as they are.                           *)
<1>w. ASSUME NEW q \in AuthRequests, NEW i \in Rows, NEW step \in {"activating", "ended"},
             MovesTo(q, step), Busy(q), UNCHANGED authOverlapped, Len(otps') = Len(otps),
             \A j \in Rows : j # i => Same(j),
             ~authOverlapped => RowAgrees(i)'
      PROVE  Codes'
  <2>1. Knows(q)'
    BY <1>w DEF Knows, MovesTo
  <2>2. ASSUME ~authOverlapped, NEW j \in Rows' PROVE RowAgrees(j)'
    <3>1. j \in Rows /\ RowAgrees(j)
      BY <1>w, <2>2 DEF Rows, Codes
    <3>2. CASE j = i
      BY <1>w, <2>2, <3>2
    <3>3. CASE j # i
      <4>1. Same(j) /\ Len(otps') = Len(otps)
        BY <1>w, <3>1, <3>3
      <4> QED  BY <3>1, <4>1 DEF RowAgrees, Same
    <3> QED  BY <3>2, <3>3
  <2> QED  BY <1>w, <2>1, <2>2, OneBusy DEF AuthSteps
<1>r. ASSUME NEW q \in AuthRequests, ~authOverlapped,
             auth[q].step \in {"lapsed", "wrong", "right"}
      PROVE  LET i == auth[q].otp
             IN  /\ i \in Rows /\ RowAgrees(i) /\ otps[i] \in OtpRequest
                 /\ accepted[i] = 0 /\ guesses[i] \in Nat /\ guesses[i] < MaxAttempts
                 /\ otps[i].status = "ACTIVE" /\ auth[q].attempts = guesses[i]
  <2> DEFINE i == auth[q].otp
  <2>1. i \in Rows /\ RowAgrees(i) /\ otps[i].status = "ACTIVE"
        /\ auth[q].attempts = otps[i].attempts
    BY <1>r, <1>t DEF HasRead, Codes, Knows
  <2>2. otps[i].attempts < MaxAttempts /\ otps[i] \in OtpRequest /\ accepted[i] \in Nat
        /\ guesses[i] \in Nat
    BY <1>t, <2>1 DEF OtpRows
  <2> HIDE DEF i
  <2>3. accepted[i] = 0 /\ guesses[i] < MaxAttempts /\ auth[q].attempts = guesses[i]
    BY <2>1, <2>2 DEF RowAgrees
  <2> QED  BY <2>1, <2>2, <2>3 DEF i
<1>7. ASSUME NEW q \in AuthRequests, MarkLapsed(q) PROVE Codes'
  <2>0. PICK i \in Rows : i = auth[q].otp
    BY <1>t, <1>7 DEF HasRead, MarkLapsed, AuthAt
  <2>1. Busy(q) /\ UNCHANGED authOverlapped /\ MovesTo(q, "ended") /\ auth[q].step = "lapsed"
    BY <1>7, <1>m DEF MarkLapsed, AuthAt, Busy, AuthSteps
  <2>2. /\ Len(otps') = Len(otps) /\ \A j \in Rows : j # i => Same(j)
        /\ otps'[i] = [otps[i] EXCEPT !.status = "EXPIRED"]
        /\ accepted'[i] = accepted[i] /\ guesses'[i] = guesses[i]
    BY <1>7, <1>t, <2>0, LapseRow DEF SetRow
  <2>3. ASSUME ~authOverlapped PROVE RowAgrees(i)'
    <3>1. /\ RowAgrees(i) /\ otps[i] \in OtpRequest /\ accepted[i] = 0
          /\ guesses[i] \in Nat /\ guesses[i] < MaxAttempts
      BY <1>r, <2>0, <2>1, <2>3
    <3>2. otps'[i].status = "EXPIRED" /\ otps'[i].attempts = otps[i].attempts
      BY <2>2, <3>1 DEF OtpRequest
    <3> QED  BY <2>2, <3>1, <3>2, AuthBounds DEF RowAgrees
  <2> QED  BY <1>w, <2>1, <2>2, <2>3
<1>8. ASSUME NEW q \in AuthRequests, RefuseCode(q) PROVE Codes'
  <2>0. PICK i \in Rows : i = auth[q].otp
    BY <1>t, <1>8 DEF HasRead, RefuseCode, AuthAt
  <2> DEFINE next == auth[q].attempts + 1
  <2>1. Busy(q) /\ UNCHANGED authOverlapped /\ MovesTo(q, "ended") /\ auth[q].step = "wrong"
    BY <1>8, <1>m DEF RefuseCode, AuthAt, Busy, AuthSteps
  <2>a. auth[q].attempts \in Nat
    BY <1>t, AuthBounds
  <2>2. /\ Len(otps') = Len(otps) /\ \A j \in Rows : j # i => Same(j)
        /\ otps'[i] = [otps[i] EXCEPT !.attempts = next, !.status =
                         IF next >= MaxAttempts THEN "LOCKED" ELSE "ACTIVE"]
        /\ accepted'[i] = accepted[i] /\ guesses'[i] = guesses[i] + 1
    BY <1>8, <1>t, <2>0, <2>a, RefuseRow DEF SetRow
  <2>3. ASSUME ~authOverlapped PROVE RowAgrees(i)'
    <3>1. /\ RowAgrees(i) /\ otps[i] \in OtpRequest /\ accepted[i] = 0
          /\ guesses[i] \in Nat /\ guesses[i] < MaxAttempts /\ otps[i].status = "ACTIVE"
          /\ next = guesses[i] + 1
      BY <1>r, <2>0, <2>1, <2>3
    <3> HIDE DEF next
    <3>2. /\ otps'[i].attempts = next
          /\ otps'[i].status = IF next >= MaxAttempts THEN "LOCKED" ELSE "ACTIVE"
      BY <2>2, <3>1 DEF OtpRequest
    <3> QED  BY <2>2, <3>1, <3>2, AuthBounds DEF RowAgrees
  <2> QED  BY <1>w, <2>1, <2>2, <2>3
<1>9. ASSUME NEW q \in AuthRequests, AcceptCode(q) PROVE Codes'
  <2>0. PICK i \in Rows : i = auth[q].otp
    BY <1>t, <1>9 DEF HasRead, AcceptCode, AuthAt
  <2>1. /\ Busy(q) /\ UNCHANGED authOverlapped /\ MovesTo(q, "activating")
        /\ auth[q].step = "right"
    BY <1>9, <1>m DEF AcceptCode, AuthAt, Busy, AuthSteps
  <2>2. /\ Len(otps') = Len(otps) /\ \A j \in Rows : j # i => Same(j)
        /\ otps'[i] = [otps[i] EXCEPT !.status = "USED"]
        /\ accepted'[i] = accepted[i] + 1 /\ guesses'[i] = guesses[i]
    BY <1>9, <1>t, <2>0, AcceptRow DEF SetRow
  <2>3. ASSUME ~authOverlapped PROVE RowAgrees(i)'
    <3>1. /\ RowAgrees(i) /\ otps[i] \in OtpRequest /\ accepted[i] = 0
          /\ guesses[i] \in Nat /\ guesses[i] < MaxAttempts
      BY <1>r, <2>0, <2>1, <2>3
    <3>2. otps'[i].status = "USED" /\ otps'[i].attempts = otps[i].attempts
      BY <2>2, <3>1 DEF OtpRequest
    <3> QED  BY <2>2, <3>1, <3>2, AuthBounds DEF RowAgrees
  <2> QED  BY <1>w, <2>1, <2>2, <2>3
<1>10. CASE Ages
  <2>1. /\ UNCHANGED <<accepted, guesses, auth, authOverlapped>> /\ Len(otps') = Len(otps)
        /\ \A i \in Rows : /\ otps'[i].status = otps[i].status
                           /\ otps'[i].attempts = otps[i].attempts
    BY <1>10, <1>t, AgeRow DEF Ages
  <2>2. ASSUME ~authOverlapped PROVE (\A i \in Rows : RowAgrees(i))'
    BY <2>1, <2>2 DEF Codes, Rows, RowAgrees
  <2>3. ASSUME ~authOverlapped, NEW q \in AuthRequests PROVE Knows(q)'
    <3>1. Knows(q) /\ HasRead(q)
      BY <1>t, <2>3 DEF Codes
    <3> QED  BY <2>1, <3>1 DEF Knows, HasRead, Rows
  <2> QED  BY <2>1, <2>2, <2>3 DEF Codes, Busy
<1>11. CASE LockUser \/ UNCHANGED authVars
  <2>1. UNCHANGED <<otps, accepted, guesses, auth, authOverlapped>>
    BY <1>11 DEF LockUser, authVars, otpVars
  <2> QED  BY <2>1 DEF Codes, Rows, RowAgrees, Knows, Busy
<1> QED
  BY <1>1, <1>2, <1>3, <1>4, <1>5, <1>6, <1>7, <1>8, <1>9, <1>10, <1>11 DEF AuthNext, AuthStep

-----------------------------------------------------------------------------
(* Theorems                                                                *)

AuthInv == TypeInv /\ Proven /\ RegisteredHasWallet /\ Codes

LEMMA Inductive == AuthSpec => []AuthInv
<1>1. AuthInit => AuthInv
  BY TypeInit, ProvenInit, WalletInit, CodesInit DEF AuthInv
<1>2. AuthInv /\ [AuthNext]_authVars => AuthInv'
  BY TypeStep, ProvenStep, WalletStep, CodesStep DEF AuthInv
<1> QED  BY <1>1, <1>2, PTL DEF AuthSpec

(* The user, its codes and the requests keep their types: verifyOtp writes *)
(* only rows that it has read.                                             *)
THEOREM TypeCorrect == AuthSpec => []AuthTypeOK
<1>1. AuthInv => AuthTypeOK
  <2> SUFFICES ASSUME AuthInv PROVE AuthTypeOK
    OBVIOUS
  <2>1. TypeInv /\ \A i \in 1..Len(otps) : otps[i] \in OtpRequest
    BY RowTypes DEF AuthInv, TypeInv, Rows
  <2> QED  BY <2>1 DEF TypeInv, OtpRows, AuthTypeOK
<1> QED  BY <1>1, Inductive, PTL

(* login and verifyOtp give no token to an address that was not proved,    *)
(* unless the admin unlocked it.                                           *)
THEOREM TokensVerified == AuthSpec => []TokensAreVerified
<1>1. AuthInv => TokensAreVerified
  BY DEF AuthInv, Proven, TokensAreVerified
<1> QED  BY <1>1, Inductive, PTL

(* register creates user and wallet one await apart: a registered user has *)
(* a wallet, unless its registration is being finished or was cut off.     *)
THEOREM RegisteredOwnsWallet == AuthSpec => []RegisteredHasWallet
<1>1. AuthInv => RegisteredHasWallet
  BY DEF AuthInv
<1> QED  BY <1>1, Inductive, PTL

(* createOtp, verifyOtp and resendOtp without overlap, and whatever fails: *)
(* one active code, accepted at most once and never after MaxAttempts      *)
(* wrong ones.                                                             *)
THEOREM CodesAgreeAlways == AuthSpec => []CodesAgree
<1>1. AuthInv => CodesAgree
  BY DEF AuthInv, Codes, Rows, RowAgrees, CodesAgree
<1> QED  BY <1>1, Inductive, PTL
=============================================================================
