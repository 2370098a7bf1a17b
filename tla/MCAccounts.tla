---------------------------- MODULE MCAccounts ----------------------------
(* The pages before and beside the chat.  The router shows one of them at  *)
(* a time, and the three specifications share no state: a behaviour is one *)
(* of them, while the others rest.                                         *)
EXTENDS Registration, Profile, SignIn, TLC

VARIABLE part  \* the specification that moves

vars == <<part, registrationVars, profileVars, signInVars>>

Init ==
  /\ part \in {"registration", "profile", "signIn"}
  /\ RegistrationInit /\ ProfileInit /\ SignInInit

Next ==
  /\ UNCHANGED part
  /\ \/ part = "registration" /\ RegistrationNext /\ UNCHANGED <<profileVars, signInVars>>
     \/ part = "profile" /\ ProfileNext /\ UNCHANGED <<registrationVars, signInVars>>
     \/ part = "signIn" /\ SignInNext /\ UNCHANGED <<registrationVars, profileVars>>

Spec == Init /\ [][Next]_vars

Symmetry ==
  Permutations(Tokens) \union Permutations(Values) \union Permutations(Emails)
    \union Permutations(Passwords)
===========================================================================
