----------------------------- MODULE Verifiers -----------------------------
(***************************************************************************)
(* The five places that read an Authorization header, or the token that is *)
(* cut from it, each in its own way: two verifiers of the auth service     *)
(* over HTTP, one over gRPC, the handlers of the tasks service, and the    *)
(* CSRF wrapper.  A header is a sequence of words and single spaces.       *)
(***************************************************************************)
EXTENDS Naturals, Sequences, FiniteSetsExt

CONSTANT MaxLen  \* bound on the length of a header

ASSUME VerifierAssumption == MaxLen \in Nat

VARIABLES
  header,   \* the header
  arrived   \* has it come through net/http?

Demo == <<"Bearer", " ", "demo-token">>
Words == {"Bearer", "demo-token", "other", " "}

\* strings.TrimSpace
TrimSpace(h) ==
  LET solid == {i \in 1..Len(h) : h[i] # " "}
  IN IF solid = {} THEN <<>> ELSE SubSeq(h, Min(solid), Max(solid))

HasBearer(h) == Len(h) >= 2 /\ SubSeq(h, 1, 2) = <<"Bearer", " ">>

\* strings.TrimPrefix
TrimBearer(h) == IF HasBearer(h) THEN SubSeq(h, 3, Len(h)) ELSE h

\* Mutant: the scheme is optional, as it is over gRPC.
TasksAcceptsBare(h) == TrimSpace(TrimBearer(TrimSpace(h))) = <<"demo-token">>

\* Handler.authorize of the tasks service, when there is no session.
TasksAccepts(h) == TrimSpace(h) = Demo

\* CSRFMiddleware
CsrfExempts(h) == HasBearer(TrimSpace(h))

\* Handler.Verify of the auth service.
HttpVerifies(h) == h = Demo

\* AuthService.VerifyAuthorizationHeader
ServiceVerifies(h) == HasBearer(h) /\ TrimBearer(h) = <<"demo-token">>

\* Mutant: the space before the prefix is not trimmed.
GrpcVerifiesUntrimmed(token) == TrimSpace(TrimBearer(token)) = <<"demo-token">>

\* Server.Verify over gRPC
GrpcVerifies(token) == TrimSpace(TrimBearer(TrimSpace(token))) = <<"demo-token">>

VerifierInit == header \in UNION {[1..n -> Words] : n \in 0..MaxLen} /\ arrived = FALSE

\* net/http trims the values of the headers it reads.
Transport == ~arrived /\ arrived' = TRUE /\ header' = TrimSpace(header)

VerifierSpec == VerifierInit /\ [][Transport]_<<header, arrived>>

-----------------------------------------------------------------------------
\* The readers may disagree on spaces, never on who is let in: what a stricter one
\* accepts the laxer ones accept too, and a header that opens the tasks service is
\* not stopped by the CSRF wrapper before it.
StricterAccepted ==
  /\ HttpVerifies(header) => ServiceVerifies(header)
  /\ ServiceVerifies(header) => TasksAccepts(header)
  /\ TasksAccepts(header) => GrpcVerifies(header) /\ CsrfExempts(header)

\* For a header that has come over HTTP the auth service and the tasks service agree.
SameOverHttp ==
  arrived => /\ HttpVerifies(header) <=> TasksAccepts(header)
             /\ HttpVerifies(header) <=> ServiceVerifies(header)
=============================================================================
