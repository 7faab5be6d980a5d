--------------------------- MODULE RtaCommandProofs ---------------------------
(***************************************************************************)
(* Proofs about the rta command. For every set of hosts, command lines and *)
(* servers, and chains of any length: a token stays in the domain of the   *)
(* server, and on HTTPS unless that is a loopback address; a run is        *)
(* created at most once; and what the API said of it is reported. All      *)
(* three follow from IndInv. For any number of executions and commands     *)
(* that poll them: a command tells the truth, by PollInv.                  *)
(***************************************************************************)
EXTENDS RtaCommand, ClientPolling, TLAPS

\* What the invariant needs to know of an invocation and of the bound.
LEMMA InvocationTyped ==
  inv \in Invocations => /\ inv.server \in URLs \cup {NoServer}
                         /\ inv.flag \in BOOLEAN
                         /\ MaxRequests \in Nat /\ MaxRequests > 0
BY RtaAssumption DEF InvocationType

\* The invariant holds before the command line is looked at.
LEMMA InitEstablishes == Init => IndInv
<1> SUFFICES ASSUME Init PROVE IndInv
  OBVIOUS
<1>1. TypeOK
  <2>1. inv \in Invocations /\ url = inv.server
    BY DEF Init
  <2>2. url \in URLs \cup {NoServer} /\ MaxRequests \in Nat
    BY <2>1, InvocationTyped
  <2>3. via \in 0..MaxRequests /\ created \in Nat
    BY <2>2 DEF Init
  <2>4. sent \subseteq URLs /\ known \in RowStatuses /\ row \in RowStatuses
    BY DEF Init, RowStatuses
  <2> QED
    BY <2>1, <2>2, <2>3, <2>4 DEF Init, TypeOK
<1>2. ChainInv /\ RunInv
  BY DEF Init, ChainInv, RunInv, Runs, FinalStatuses
<1>3. TokenStaysSecure /\ RunsAtMostOnce /\ ReportedRunExists
  BY DEF Init, TokenStaysSecure, RunsAtMostOnce, ReportedRunExists, Runs
<1> QED
  BY <1>1, <1>2, <1>3 DEF IndInv

\* Every step of the command, of its server and of the clock keeps the invariant.
LEMMA StepPreserves == IndInv /\ [Next]_vars => IndInv'
<1> SUFFICES ASSUME IndInv, [Next]_vars PROVE IndInv'
  OBVIOUS
<1>t. /\ inv.server \in URLs \cup {NoServer}
      /\ inv.flag \in BOOLEAN
      /\ MaxRequests \in Nat /\ MaxRequests > 0
  BY InvocationTyped DEF IndInv, TypeOK
<1>a. inv' = inv
  BY DEF Next, vars, Parse, newClient, NewClient, Send, NoAnswer, Refused, ReadAnswered, Created,
     Polled, Output, Wait, Deadline, Work, Redirect, Stray
<1>1. CASE Parse
  <2>1. TypeOK'
    BY <1>a, <1>t, <1>1 DEF IndInv, TypeOK, ChainInv, RunInv, FinalStatuses, RowStatuses, Exit,
       Runs, reqVars, execVars, srvVars, Parse
  <2>2. ChainInv'
    BY <1>a, <1>t, <1>1 DEF IndInv, TypeOK, ChainInv, RunInv, isSecureOrLoopback, Within, Exit,
       Runs, reqVars, execVars, srvVars, Parse
  <2>3. RunInv'
    BY <1>a, <1>t, <1>1 DEF IndInv, TypeOK, ChainInv, RunInv, FinalStatuses, RowStatuses, Exit,
       Runs, reqVars, execVars, srvVars, Parse
  <2>4. TokenStaysSecure'
    BY <1>a, <1>t, <1>1 DEF IndInv, TypeOK, ChainInv, RunInv, TokenStaysSecure,
       isSecureOrLoopback, Within, Exit, Runs, reqVars, execVars, srvVars, Parse
  <2>5. RunsAtMostOnce'
    BY <1>a, <1>t, <1>1 DEF IndInv, TypeOK, ChainInv, RunInv, RunsAtMostOnce, FinalStatuses,
       RowStatuses, Exit, Runs, reqVars, execVars, srvVars, Parse
  <2>6. ReportedRunExists'
    BY <1>a, <1>t, <1>1 DEF IndInv, TypeOK, ChainInv, RunInv, ReportedRunExists, FinalStatuses,
       RowStatuses, Exit, Runs, reqVars, execVars, srvVars, Parse
  <2> QED
    BY <2>1, <2>2, <2>3, <2>4, <2>5, <2>6 DEF IndInv
<1>2. CASE newClient
  <2>1. TypeOK'
    BY <1>a, <1>t, <1>2 DEF IndInv, TypeOK, ChainInv, RunInv, FinalStatuses, RowStatuses, Exit,
       Runs, reqVars, execVars, srvVars, resolveToken, catalogCommands, newClient
  <2>2. ChainInv'
    BY <1>a, <1>t, <1>2 DEF IndInv, TypeOK, ChainInv, RunInv, isSecureOrLoopback, Within, Exit,
       Runs, reqVars, execVars, srvVars, resolveToken, catalogCommands, newClient
  <2>3. RunInv'
    BY <1>a, <1>t, <1>2 DEF IndInv, TypeOK, ChainInv, RunInv, FinalStatuses, RowStatuses, Exit,
       Runs, reqVars, execVars, srvVars, resolveToken, catalogCommands, newClient
  <2>4. TokenStaysSecure'
    BY <1>a, <1>t, <1>2 DEF IndInv, TypeOK, ChainInv, RunInv, TokenStaysSecure,
       isSecureOrLoopback, Within, Exit, Runs, reqVars, execVars, srvVars, resolveToken,
       catalogCommands, newClient
  <2>5. RunsAtMostOnce'
    BY <1>a, <1>t, <1>2 DEF IndInv, TypeOK, ChainInv, RunInv, RunsAtMostOnce, FinalStatuses,
       RowStatuses, Exit, Runs, reqVars, execVars, srvVars, resolveToken, catalogCommands,
       newClient
  <2>6. ReportedRunExists'
    BY <1>a, <1>t, <1>2 DEF IndInv, TypeOK, ChainInv, RunInv, ReportedRunExists, FinalStatuses,
       RowStatuses, Exit, Runs, reqVars, execVars, srvVars, resolveToken, catalogCommands,
       newClient
  <2> QED
    BY <2>1, <2>2, <2>3, <2>4, <2>5, <2>6 DEF IndInv
<1>3. CASE NewClient
  <2>1. TypeOK'
    <3> USE <1>a, <1>t, <1>3 DEF IndInv, TypeOK, RunInv, Exit, Runs, reqVars, execVars, srvVars, Ask, NewClient
    <3>1. /\ stage' \in {"parse", "token", "client", "send", "sent", "wait", "done"}
          /\ exit' \in {"none", "usage", "error", "submitted", "failed", "ok"}
          /\ inv' \in Invocations /\ token' \in BOOLEAN /\ expired' \in BOOLEAN
      OBVIOUS
    <3>2. /\ req' \in {"first", "poll", "output"} /\ method' \in {"GET", "POST"}
          /\ url' \in URLs \cup {NoServer} /\ via' \in 0..MaxRequests
      OBVIOUS
    <3>3. stripped' \in BOOLEAN /\ foreign' \in BOOLEAN
      OBVIOUS
    <3>4. known' \in RowStatuses /\ row' \in RowStatuses /\ created' \in Nat /\ sent' \subseteq URLs
      BY DEF FinalStatuses, RowStatuses
    <3> QED
      BY <3>1, <3>2, <3>3, <3>4
  <2>2. ChainInv'
    BY <1>a, <1>t, <1>3 DEF IndInv, TypeOK, ChainInv, RunInv, isSecureOrLoopback, Within, Exit,
       Runs, reqVars, execVars, srvVars, Ask, NoServer, NewClient
  <2>3. RunInv'
    BY <1>a, <1>t, <1>3 DEF IndInv, TypeOK, ChainInv, RunInv, FinalStatuses, RowStatuses, Exit,
       Runs, reqVars, execVars, srvVars, Ask, NoServer, NewClient
  <2>4. TokenStaysSecure'
    BY <1>a, <1>t, <1>3 DEF IndInv, TypeOK, ChainInv, RunInv, TokenStaysSecure,
       isSecureOrLoopback, Within, Exit, Runs, reqVars, execVars, srvVars, Ask, NoServer,
       NewClient
  <2>5. RunsAtMostOnce'
    BY <1>a, <1>t, <1>3 DEF IndInv, TypeOK, ChainInv, RunInv, RunsAtMostOnce, FinalStatuses,
       RowStatuses, Exit, Runs, reqVars, execVars, srvVars, Ask, NoServer, NewClient
  <2>6. ReportedRunExists'
    BY <1>a, <1>t, <1>3 DEF IndInv, TypeOK, ChainInv, RunInv, ReportedRunExists, FinalStatuses,
       RowStatuses, Exit, Runs, reqVars, execVars, srvVars, Ask, NoServer, NewClient
  <2> QED
    BY <2>1, <2>2, <2>3, <2>4, <2>5, <2>6 DEF IndInv
<1>4. CASE Send
  <2>1. TypeOK'
    BY <1>a, <1>t, <1>4 DEF IndInv, TypeOK, ChainInv, RunInv, FinalStatuses, RowStatuses, Exit,
       Runs, reqVars, execVars, srvVars, Send
  <2>2. ChainInv'
    BY <1>a, <1>t, <1>4 DEF IndInv, TypeOK, ChainInv, RunInv, isSecureOrLoopback, Within, Exit,
       Runs, reqVars, execVars, srvVars, Send
  <2>3. RunInv'
    BY <1>a, <1>t, <1>4 DEF IndInv, TypeOK, ChainInv, RunInv, FinalStatuses, RowStatuses, Exit,
       Runs, reqVars, execVars, srvVars, Send
  <2>4. TokenStaysSecure'
    BY <1>a, <1>t, <1>4 DEF IndInv, TypeOK, ChainInv, RunInv, TokenStaysSecure,
       isSecureOrLoopback, Within, Exit, Runs, reqVars, execVars, srvVars, Send
  <2>5. RunsAtMostOnce'
    BY <1>a, <1>t, <1>4 DEF IndInv, TypeOK, ChainInv, RunInv, RunsAtMostOnce, FinalStatuses,
       RowStatuses, Exit, Runs, reqVars, execVars, srvVars, Send
  <2>6. ReportedRunExists'
    BY <1>a, <1>t, <1>4 DEF IndInv, TypeOK, ChainInv, RunInv, ReportedRunExists, FinalStatuses,
       RowStatuses, Exit, Runs, reqVars, execVars, srvVars, Send
  <2> QED
    BY <2>1, <2>2, <2>3, <2>4, <2>5, <2>6 DEF IndInv
<1>5. CASE NoAnswer
  <2>1. TypeOK'
    BY <1>a, <1>t, <1>5 DEF IndInv, TypeOK, ChainInv, RunInv, FinalStatuses, RowStatuses, Exit,
       Runs, reqVars, execVars, srvVars, Fail, Accept, NoAnswer
  <2>2. ChainInv'
    BY <1>a, <1>t, <1>5 DEF IndInv, TypeOK, ChainInv, RunInv, isSecureOrLoopback, Within, Exit,
       Runs, reqVars, execVars, srvVars, Fail, Accept, NoAnswer
  <2>3. RunInv'
    BY <1>a, <1>t, <1>5 DEF IndInv, TypeOK, ChainInv, RunInv, FinalStatuses, RowStatuses, Exit,
       Runs, reqVars, execVars, srvVars, Fail, Accept, NoAnswer
  <2>4. TokenStaysSecure'
    BY <1>a, <1>t, <1>5 DEF IndInv, TypeOK, ChainInv, RunInv, TokenStaysSecure,
       isSecureOrLoopback, Within, Exit, Runs, reqVars, execVars, srvVars, Fail, Accept,
       NoAnswer
  <2>5. RunsAtMostOnce'
    BY <1>a, <1>t, <1>5 DEF IndInv, TypeOK, ChainInv, RunInv, RunsAtMostOnce, FinalStatuses,
       RowStatuses, Exit, Runs, reqVars, execVars, srvVars, Fail, Accept, NoAnswer
  <2>6. ReportedRunExists'
    BY <1>a, <1>t, <1>5 DEF IndInv, TypeOK, ChainInv, RunInv, ReportedRunExists, FinalStatuses,
       RowStatuses, Exit, Runs, reqVars, execVars, srvVars, Fail, Accept, NoAnswer
  <2> QED
    BY <2>1, <2>2, <2>3, <2>4, <2>5, <2>6 DEF IndInv
<1>6. CASE Refused
  <2>1. TypeOK'
    BY <1>a, <1>t, <1>6 DEF IndInv, TypeOK, ChainInv, RunInv, FinalStatuses, RowStatuses, Exit,
       Runs, reqVars, execVars, srvVars, Fail, Refused
  <2>2. ChainInv'
    BY <1>a, <1>t, <1>6 DEF IndInv, TypeOK, ChainInv, RunInv, isSecureOrLoopback, Within, Exit,
       Runs, reqVars, execVars, srvVars, Fail, Refused
  <2>3. RunInv'
    BY <1>a, <1>t, <1>6 DEF IndInv, TypeOK, ChainInv, RunInv, FinalStatuses, RowStatuses, Exit,
       Runs, reqVars, execVars, srvVars, Fail, Refused
  <2>4. TokenStaysSecure'
    BY <1>a, <1>t, <1>6 DEF IndInv, TypeOK, ChainInv, RunInv, TokenStaysSecure,
       isSecureOrLoopback, Within, Exit, Runs, reqVars, execVars, srvVars, Fail, Refused
  <2>5. RunsAtMostOnce'
    BY <1>a, <1>t, <1>6 DEF IndInv, TypeOK, ChainInv, RunInv, RunsAtMostOnce, FinalStatuses,
       RowStatuses, Exit, Runs, reqVars, execVars, srvVars, Fail, Refused
  <2>6. ReportedRunExists'
    BY <1>a, <1>t, <1>6 DEF IndInv, TypeOK, ChainInv, RunInv, ReportedRunExists, FinalStatuses,
       RowStatuses, Exit, Runs, reqVars, execVars, srvVars, Fail, Refused
  <2> QED
    BY <2>1, <2>2, <2>3, <2>4, <2>5, <2>6 DEF IndInv
<1>7. CASE ReadAnswered
  <2>1. TypeOK'
    BY <1>a, <1>t, <1>7 DEF IndInv, TypeOK, ChainInv, RunInv, FinalStatuses, RowStatuses, Exit,
       Runs, reqVars, execVars, srvVars, ReadAnswered
  <2>2. ChainInv'
    BY <1>a, <1>t, <1>7 DEF IndInv, TypeOK, ChainInv, RunInv, isSecureOrLoopback, Within, Exit,
       Runs, reqVars, execVars, srvVars, ReadAnswered
  <2>3. RunInv'
    BY <1>a, <1>t, <1>7 DEF IndInv, TypeOK, ChainInv, RunInv, FinalStatuses, RowStatuses, Exit,
       Runs, reqVars, execVars, srvVars, ReadAnswered
  <2>4. TokenStaysSecure'
    BY <1>a, <1>t, <1>7 DEF IndInv, TypeOK, ChainInv, RunInv, TokenStaysSecure,
       isSecureOrLoopback, Within, Exit, Runs, reqVars, execVars, srvVars, ReadAnswered
  <2>5. RunsAtMostOnce'
    BY <1>a, <1>t, <1>7 DEF IndInv, TypeOK, ChainInv, RunInv, RunsAtMostOnce, FinalStatuses,
       RowStatuses, Exit, Runs, reqVars, execVars, srvVars, ReadAnswered
  <2>6. ReportedRunExists'
    BY <1>a, <1>t, <1>7 DEF IndInv, TypeOK, ChainInv, RunInv, ReportedRunExists, FinalStatuses,
       RowStatuses, Exit, Runs, reqVars, execVars, srvVars, ReadAnswered
  <2> QED
    BY <2>1, <2>2, <2>3, <2>4, <2>5, <2>6 DEF IndInv
<1>8. CASE Created
  <2>1. TypeOK'
    <3> USE <1>a, <1>t, <1>8 DEF IndInv, TypeOK, RunInv, Exit, Runs, reqVars, execVars, srvVars, Accept, Created
    <3>1. /\ stage' \in {"parse", "token", "client", "send", "sent", "wait", "done"}
          /\ exit' \in {"none", "usage", "error", "submitted", "failed", "ok"}
          /\ inv' \in Invocations /\ token' \in BOOLEAN /\ expired' \in BOOLEAN
      OBVIOUS
    <3>2. /\ req' \in {"first", "poll", "output"} /\ method' \in {"GET", "POST"}
          /\ url' \in URLs \cup {NoServer} /\ via' \in 0..MaxRequests
      OBVIOUS
    <3>3. stripped' \in BOOLEAN /\ foreign' \in BOOLEAN
      OBVIOUS
    <3>4. known' \in RowStatuses /\ row' \in RowStatuses /\ created' \in Nat /\ sent' \subseteq URLs
      BY DEF FinalStatuses, RowStatuses
    <3> QED
      BY <3>1, <3>2, <3>3, <3>4
  <2>2. ChainInv'
    BY <1>a, <1>t, <1>8 DEF IndInv, TypeOK, ChainInv, RunInv, isSecureOrLoopback, Within, Exit,
       Runs, reqVars, execVars, srvVars, Accept, Created
  <2>3. RunInv'
    BY <1>a, <1>t, <1>8 DEF IndInv, TypeOK, ChainInv, RunInv, FinalStatuses, RowStatuses, Exit,
       Runs, reqVars, execVars, srvVars, Accept, Created
  <2>4. TokenStaysSecure'
    BY <1>a, <1>t, <1>8 DEF IndInv, TypeOK, ChainInv, RunInv, TokenStaysSecure,
       isSecureOrLoopback, Within, Exit, Runs, reqVars, execVars, srvVars, Accept, Created
  <2>5. RunsAtMostOnce'
    BY <1>a, <1>t, <1>8 DEF IndInv, TypeOK, ChainInv, RunInv, RunsAtMostOnce, FinalStatuses,
       RowStatuses, Exit, Runs, reqVars, execVars, srvVars, Accept, Created
  <2>6. ReportedRunExists'
    BY <1>a, <1>t, <1>8 DEF IndInv, TypeOK, ChainInv, RunInv, ReportedRunExists, FinalStatuses,
       RowStatuses, Exit, Runs, reqVars, execVars, srvVars, Accept, Created
  <2> QED
    BY <2>1, <2>2, <2>3, <2>4, <2>5, <2>6 DEF IndInv
<1>9. CASE Polled
  <2>1. TypeOK'
    <3> USE <1>a, <1>t, <1>9 DEF IndInv, TypeOK, RunInv, Exit, Runs, reqVars, execVars, srvVars, Ask, Polled
    <3>1. /\ stage' \in {"parse", "token", "client", "send", "sent", "wait", "done"}
          /\ exit' \in {"none", "usage", "error", "submitted", "failed", "ok"}
          /\ inv' \in Invocations /\ token' \in BOOLEAN /\ expired' \in BOOLEAN
      OBVIOUS
    <3>2. /\ req' \in {"first", "poll", "output"} /\ method' \in {"GET", "POST"}
          /\ url' \in URLs \cup {NoServer} /\ via' \in 0..MaxRequests
      OBVIOUS
    <3>3. stripped' \in BOOLEAN /\ foreign' \in BOOLEAN
      OBVIOUS
    <3>4. known' \in RowStatuses /\ row' \in RowStatuses /\ created' \in Nat /\ sent' \subseteq URLs
      BY DEF FinalStatuses, RowStatuses
    <3> QED
      BY <3>1, <3>2, <3>3, <3>4
  <2>2. ChainInv'
    BY <1>a, <1>t, <1>9 DEF IndInv, TypeOK, ChainInv, RunInv, isSecureOrLoopback, Within, Exit,
       Runs, reqVars, execVars, srvVars, Ask, Polled
  <2>3. RunInv'
    BY <1>a, <1>t, <1>9 DEF IndInv, TypeOK, ChainInv, RunInv, FinalStatuses, RowStatuses, Exit,
       Runs, reqVars, execVars, srvVars, Ask, Polled
  <2>4. TokenStaysSecure'
    BY <1>a, <1>t, <1>9 DEF IndInv, TypeOK, ChainInv, RunInv, TokenStaysSecure,
       isSecureOrLoopback, Within, Exit, Runs, reqVars, execVars, srvVars, Ask, Polled
  <2>5. RunsAtMostOnce'
    BY <1>a, <1>t, <1>9 DEF IndInv, TypeOK, ChainInv, RunInv, RunsAtMostOnce, FinalStatuses,
       RowStatuses, Exit, Runs, reqVars, execVars, srvVars, Ask, Polled
  <2>6. ReportedRunExists'
    BY <1>a, <1>t, <1>9 DEF IndInv, TypeOK, ChainInv, RunInv, ReportedRunExists, FinalStatuses,
       RowStatuses, Exit, Runs, reqVars, execVars, srvVars, Ask, Polled
  <2> QED
    BY <2>1, <2>2, <2>3, <2>4, <2>5, <2>6 DEF IndInv
<1>10. CASE Output
  <2>1. TypeOK'
    BY <1>a, <1>t, <1>10 DEF IndInv, TypeOK, ChainInv, RunInv, FinalStatuses, RowStatuses, Exit,
       Runs, reqVars, execVars, srvVars, Output
  <2>2. ChainInv'
    BY <1>a, <1>t, <1>10 DEF IndInv, TypeOK, ChainInv, RunInv, isSecureOrLoopback, Within,
       Exit, Runs, reqVars, execVars, srvVars, Output
  <2>3. RunInv'
    BY <1>a, <1>t, <1>10 DEF IndInv, TypeOK, ChainInv, RunInv, FinalStatuses, RowStatuses, Exit,
       Runs, reqVars, execVars, srvVars, Output
  <2>4. TokenStaysSecure'
    BY <1>a, <1>t, <1>10 DEF IndInv, TypeOK, ChainInv, RunInv, TokenStaysSecure,
       isSecureOrLoopback, Within, Exit, Runs, reqVars, execVars, srvVars, Output
  <2>5. RunsAtMostOnce'
    BY <1>a, <1>t, <1>10 DEF IndInv, TypeOK, ChainInv, RunInv, RunsAtMostOnce, FinalStatuses,
       RowStatuses, Exit, Runs, reqVars, execVars, srvVars, Output
  <2>6. ReportedRunExists'
    BY <1>a, <1>t, <1>10 DEF IndInv, TypeOK, ChainInv, RunInv, ReportedRunExists, FinalStatuses,
       RowStatuses, Exit, Runs, reqVars, execVars, srvVars, Output
  <2> QED
    BY <2>1, <2>2, <2>3, <2>4, <2>5, <2>6 DEF IndInv
<1>11. CASE Wait
  <2>1. TypeOK'
    <3> USE <1>a, <1>t, <1>11 DEF IndInv, TypeOK, RunInv, Exit, Runs, reqVars, execVars, srvVars, Ask, Wait
    <3>1. /\ stage' \in {"parse", "token", "client", "send", "sent", "wait", "done"}
          /\ exit' \in {"none", "usage", "error", "submitted", "failed", "ok"}
          /\ inv' \in Invocations /\ token' \in BOOLEAN /\ expired' \in BOOLEAN
      OBVIOUS
    <3>2. /\ req' \in {"first", "poll", "output"} /\ method' \in {"GET", "POST"}
          /\ url' \in URLs \cup {NoServer} /\ via' \in 0..MaxRequests
      OBVIOUS
    <3>3. stripped' \in BOOLEAN /\ foreign' \in BOOLEAN
      OBVIOUS
    <3>4. known' \in RowStatuses /\ row' \in RowStatuses /\ created' \in Nat /\ sent' \subseteq URLs
      BY DEF FinalStatuses, RowStatuses
    <3> QED
      BY <3>1, <3>2, <3>3, <3>4
  <2>2. ChainInv'
    BY <1>a, <1>t, <1>11 DEF IndInv, TypeOK, ChainInv, RunInv, isSecureOrLoopback, Within,
       Exit, Runs, reqVars, execVars, srvVars, Ask, Wait
  <2>3. RunInv'
    BY <1>a, <1>t, <1>11 DEF IndInv, TypeOK, ChainInv, RunInv, FinalStatuses, RowStatuses, Exit,
       Runs, reqVars, execVars, srvVars, Ask, Wait
  <2>4. TokenStaysSecure'
    BY <1>a, <1>t, <1>11 DEF IndInv, TypeOK, ChainInv, RunInv, TokenStaysSecure,
       isSecureOrLoopback, Within, Exit, Runs, reqVars, execVars, srvVars, Ask, Wait
  <2>5. RunsAtMostOnce'
    BY <1>a, <1>t, <1>11 DEF IndInv, TypeOK, ChainInv, RunInv, RunsAtMostOnce, FinalStatuses,
       RowStatuses, Exit, Runs, reqVars, execVars, srvVars, Ask, Wait
  <2>6. ReportedRunExists'
    BY <1>a, <1>t, <1>11 DEF IndInv, TypeOK, ChainInv, RunInv, ReportedRunExists, FinalStatuses,
       RowStatuses, Exit, Runs, reqVars, execVars, srvVars, Ask, Wait
  <2> QED
    BY <2>1, <2>2, <2>3, <2>4, <2>5, <2>6 DEF IndInv
<1>12. CASE Deadline
  <2>1. TypeOK'
    BY <1>a, <1>t, <1>12 DEF IndInv, TypeOK, ChainInv, RunInv, FinalStatuses, RowStatuses, Exit,
       Runs, reqVars, execVars, srvVars, Deadline
  <2>2. ChainInv'
    BY <1>a, <1>t, <1>12 DEF IndInv, TypeOK, ChainInv, RunInv, isSecureOrLoopback, Within,
       Exit, Runs, reqVars, execVars, srvVars, Deadline
  <2>3. RunInv'
    BY <1>a, <1>t, <1>12 DEF IndInv, TypeOK, ChainInv, RunInv, FinalStatuses, RowStatuses, Exit,
       Runs, reqVars, execVars, srvVars, Deadline
  <2>4. TokenStaysSecure'
    BY <1>a, <1>t, <1>12 DEF IndInv, TypeOK, ChainInv, RunInv, TokenStaysSecure,
       isSecureOrLoopback, Within, Exit, Runs, reqVars, execVars, srvVars, Deadline
  <2>5. RunsAtMostOnce'
    BY <1>a, <1>t, <1>12 DEF IndInv, TypeOK, ChainInv, RunInv, RunsAtMostOnce, FinalStatuses,
       RowStatuses, Exit, Runs, reqVars, execVars, srvVars, Deadline
  <2>6. ReportedRunExists'
    BY <1>a, <1>t, <1>12 DEF IndInv, TypeOK, ChainInv, RunInv, ReportedRunExists, FinalStatuses,
       RowStatuses, Exit, Runs, reqVars, execVars, srvVars, Deadline
  <2> QED
    BY <2>1, <2>2, <2>3, <2>4, <2>5, <2>6 DEF IndInv
<1>13. CASE Work
  <2>1. TypeOK'
    BY <1>a, <1>t, <1>13 DEF IndInv, TypeOK, ChainInv, RunInv, FinalStatuses, RowStatuses, Exit,
       Runs, reqVars, execVars, srvVars, Work
  <2>2. ChainInv'
    BY <1>a, <1>t, <1>13 DEF IndInv, TypeOK, ChainInv, RunInv, isSecureOrLoopback, Within,
       Exit, Runs, reqVars, execVars, srvVars, Work
  <2>3. RunInv'
    BY <1>a, <1>t, <1>13 DEF IndInv, TypeOK, ChainInv, RunInv, FinalStatuses, RowStatuses, Exit,
       Runs, reqVars, execVars, srvVars, Work
  <2>4. TokenStaysSecure'
    BY <1>a, <1>t, <1>13 DEF IndInv, TypeOK, ChainInv, RunInv, TokenStaysSecure,
       isSecureOrLoopback, Within, Exit, Runs, reqVars, execVars, srvVars, Work
  <2>5. RunsAtMostOnce'
    BY <1>a, <1>t, <1>13 DEF IndInv, TypeOK, ChainInv, RunInv, RunsAtMostOnce, FinalStatuses,
       RowStatuses, Exit, Runs, reqVars, execVars, srvVars, Work
  <2>6. ReportedRunExists'
    BY <1>a, <1>t, <1>13 DEF IndInv, TypeOK, ChainInv, RunInv, ReportedRunExists, FinalStatuses,
       RowStatuses, Exit, Runs, reqVars, execVars, srvVars, Work
  <2> QED
    BY <2>1, <2>2, <2>3, <2>4, <2>5, <2>6 DEF IndInv
<1>14. CASE \E to \in URLs, preserves \in BOOLEAN : Redirect(to, preserves)
  <2>1. TypeOK'
    <3> USE <1>a, <1>t, <1>14 DEF IndInv, TypeOK, RunInv, Exit, Runs, reqVars, execVars, srvVars, refuseRedirect, Redirect
    <3>1. /\ stage' \in {"parse", "token", "client", "send", "sent", "wait", "done"}
          /\ exit' \in {"none", "usage", "error", "submitted", "failed", "ok"}
          /\ inv' \in Invocations /\ token' \in BOOLEAN /\ expired' \in BOOLEAN
      OBVIOUS
    <3>2. /\ req' \in {"first", "poll", "output"} /\ method' \in {"GET", "POST"}
          /\ url' \in URLs \cup {NoServer} /\ via' \in 0..MaxRequests
      OBVIOUS
    <3>3. stripped' \in BOOLEAN /\ foreign' \in BOOLEAN
      OBVIOUS
    <3>4. known' \in RowStatuses /\ row' \in RowStatuses /\ created' \in Nat /\ sent' \subseteq URLs
      BY DEF FinalStatuses, RowStatuses
    <3> QED
      BY <3>1, <3>2, <3>3, <3>4
  <2>2. ChainInv'
    <3>1. PICK to \in URLs, preserves \in BOOLEAN : Redirect(to, preserves)
      BY <1>14
    <3>2. stage = "sent" /\ UNCHANGED <<inv, token, via>> /\ via \in 0..MaxRequests
      BY <3>1 DEF IndInv, TypeOK, Redirect
    <3>3. CASE refuseRedirect(url, to)
      BY <3>1, <3>3 DEF IndInv, ChainInv, Redirect, Exit
    <3>4. CASE ~refuseRedirect(url, to)
      <4>1. /\ url' = to /\ stage' = "send"
            /\ stripped' = (stripped \/ ~Within(to.host, inv.server.host))
        BY <3>1, <3>4 DEF Redirect
      <4>2. via < MaxRequests /\ (url.scheme = "https" => to.scheme = "https")
        BY <1>t, <3>2, <3>4 DEF refuseRedirect
      <4>3. stripped' \/ Within(to.host, inv.server.host)
        BY <4>1
      <4> QED
        BY <3>2, <4>1, <4>2, <4>3 DEF IndInv, ChainInv, isSecureOrLoopback, Within
    <3> QED
      BY <3>3, <3>4
  <2>3. RunInv'
    BY <1>a, <1>t, <1>14 DEF IndInv, TypeOK, ChainInv, RunInv, FinalStatuses, RowStatuses, Exit,
       Runs, reqVars, execVars, srvVars, refuseRedirect, Redirect
  <2>4. TokenStaysSecure'
    BY <1>a, <1>t, <1>14 DEF IndInv, TypeOK, ChainInv, RunInv, TokenStaysSecure,
       isSecureOrLoopback, Within, Exit, Runs, reqVars, execVars, srvVars, refuseRedirect,
       Redirect
  <2>5. RunsAtMostOnce'
    BY <1>a, <1>t, <1>14 DEF IndInv, TypeOK, ChainInv, RunInv, RunsAtMostOnce, FinalStatuses,
       RowStatuses, Exit, Runs, reqVars, execVars, srvVars, refuseRedirect, Redirect
  <2>6. ReportedRunExists'
    BY <1>a, <1>t, <1>14 DEF IndInv, TypeOK, ChainInv, RunInv, ReportedRunExists, FinalStatuses,
       RowStatuses, Exit, Runs, reqVars, execVars, srvVars, refuseRedirect, Redirect
  <2> QED
    BY <2>1, <2>2, <2>3, <2>4, <2>5, <2>6 DEF IndInv
<1>15. CASE \E said \in RowStatuses : Stray(said)
  <2>1. TypeOK'
    <3> USE <1>a, <1>t, <1>15 DEF IndInv, TypeOK, RunInv, Exit, Runs, reqVars, execVars, srvVars, Ask, Accept, Stray
    <3>1. /\ stage' \in {"parse", "token", "client", "send", "sent", "wait", "done"}
          /\ exit' \in {"none", "usage", "error", "submitted", "failed", "ok"}
          /\ inv' \in Invocations /\ token' \in BOOLEAN /\ expired' \in BOOLEAN
      OBVIOUS
    <3>2. /\ req' \in {"first", "poll", "output"} /\ method' \in {"GET", "POST"}
          /\ url' \in URLs \cup {NoServer} /\ via' \in 0..MaxRequests
      OBVIOUS
    <3>3. stripped' \in BOOLEAN /\ foreign' \in BOOLEAN
      OBVIOUS
    <3>4. known' \in RowStatuses /\ row' \in RowStatuses /\ created' \in Nat /\ sent' \subseteq URLs
      BY DEF FinalStatuses, RowStatuses
    <3> QED
      BY <3>1, <3>2, <3>3, <3>4
  <2>2. ChainInv'
    BY <1>a, <1>t, <1>15 DEF IndInv, TypeOK, ChainInv, RunInv, isSecureOrLoopback, Within,
       Exit, Runs, reqVars, execVars, srvVars, Ask, Accept, Stray
  <2>3. RunInv'
    BY <1>a, <1>t, <1>15 DEF IndInv, TypeOK, ChainInv, RunInv, FinalStatuses, RowStatuses, Exit,
       Runs, reqVars, execVars, srvVars, Ask, Accept, Stray
  <2>4. TokenStaysSecure'
    BY <1>a, <1>t, <1>15 DEF IndInv, TypeOK, ChainInv, RunInv, TokenStaysSecure,
       isSecureOrLoopback, Within, Exit, Runs, reqVars, execVars, srvVars, Ask, Accept, Stray
  <2>5. RunsAtMostOnce'
    BY <1>a, <1>t, <1>15 DEF IndInv, TypeOK, ChainInv, RunInv, RunsAtMostOnce, FinalStatuses,
       RowStatuses, Exit, Runs, reqVars, execVars, srvVars, Ask, Accept, Stray
  <2>6. ReportedRunExists'
    BY <1>a, <1>t, <1>15 DEF IndInv, TypeOK, ChainInv, RunInv, ReportedRunExists, FinalStatuses,
       RowStatuses, Exit, Runs, reqVars, execVars, srvVars, Ask, Accept, Stray
  <2> QED
    BY <2>1, <2>2, <2>3, <2>4, <2>5, <2>6 DEF IndInv
<1>16. CASE UNCHANGED vars
  BY <1>16 DEF vars, reqVars, execVars, srvVars, isSecureOrLoopback, IndInv, TypeOK, ChainInv,
     RunInv, TokenStaysSecure, RunsAtMostOnce, ReportedRunExists, Runs
<1> QED
  BY <1>1, <1>2, <1>3, <1>4, <1>5, <1>6, <1>7, <1>8, <1>9, <1>10, <1>11, <1>12, <1>13, <1>14,
     <1>15, <1>16 DEF Next

\* IndInv is an invariant of the command.
THEOREM IndInvHolds == Spec => []IndInv
<1>1. Init => IndInv
  BY InitEstablishes
<1>2. IndInv /\ [Next]_vars => IndInv'
  BY StepPreserves
<1> QED
  BY <1>1, <1>2, PTL DEF Spec

\* The types of the command's state, whatever the number of redirects.
THEOREM TypeCorrect == Spec => []TypeOK
<1>1. IndInv => TypeOK
  BY DEF IndInv
<1> QED
  BY <1>1, IndInvHolds, PTL

\* A token goes to the host of --server and its subdomains only, and over plain HTTP only
\* if --server names a loopback address, wherever redirects lead.
THEOREM TokenSecure == Spec => []TokenStaysSecure
<1>1. IndInv => TokenStaysSecure
  BY DEF IndInv
<1> QED
  BY <1>1, IndInvHolds, PTL

\* One `rta action run` creates at most one execution.
THEOREM AtMostOneRun == Spec => []RunsAtMostOnce
<1>1. IndInv => RunsAtMostOnce
  BY DEF IndInv
<1> QED
  BY <1>1, IndInvHolds, PTL

\* What `rta action run` reports is an execution that exists, with the status it has,
\* unless it was decoded from an answer that is not the API's.
THEOREM ReportsExistingRun == Spec => []ReportedRunExists
<1>1. IndInv => ReportedRunExists
  BY DEF IndInv
<1> QED
  BY <1>1, IndInvHolds, PTL

-----------------------------------------------------------------------------
(* The commands and the executions they wait for: ClientPolling.           *)

\* Nothing is stored, read or told at first.
LEMMA PollInitInv == PollInit => PollInv
  BY DEF PollInit, AbsInit, PollInv, PollTypeOK, RowInv, ReadInv, CliInv, Statuses, Terminal,
         CliStates, Exits

\* The rows only move forward: what is terminal stays, with its output.
LEMMA RowsMoveForward ==
  ASSUME PollInv, NEW e \in Execs, Submit(e) \/ StoreStep(e)
  PROVE  /\ status' \in [Execs -> Statuses]
         /\ output' \in [Execs -> BOOLEAN]
         /\ ran' \in [Execs -> {0, 1}]
         /\ RowInv'
         /\ \A f \in Execs : status[f] \in Terminal => status'[f] = status[f]
  <1> USE DEF PollInv, PollTypeOK, RowInv, Statuses, Terminal
  <1>1. CASE Submit(e)
    BY <1>1 DEF Submit
  <1>2. CASE Claim(e)
    BY <1>2 DEF Claim
  <1>3. CASE Start(e)
    BY <1>3 DEF Start
  <1>4. CASE Complete(e)
    <2>1. PICK s \in Terminal :
             /\ status' = [status EXCEPT ![e] = s]
             /\ output' = [output EXCEPT ![e] = (s = "succeeded")]
      BY <1>4 DEF Complete
    <2>2. QED
      BY <1>4, <2>1 DEF Complete
  <1>5. QED
    BY <1>1, <1>2, <1>3, <1>4 DEF StoreStep

\* The two steps of a command that insert a row, and the two ways it may end there.
LEMMA PostStep ==
  ASSUME PollInv, NEW e \in Execs, Post(e) \/ PostError(e)
  PROVE  PollInv'
  <1> USE DEF PollInv
  <1>1. /\ status' \in [Execs -> Statuses]
        /\ output' \in [Execs -> BOOLEAN]
        /\ ran' \in [Execs -> {0, 1}]
        /\ RowInv'
        /\ \A f \in Execs : status[f] \in Terminal => status'[f] = status[f]
    <2>1. CASE Submit(e)
      BY <2>1, RowsMoveForward
    <2>2. CASE UNCHANGED absVars
      BY <2>2 DEF absVars, PollTypeOK, RowInv
    <2>3. QED
      BY <2>1, <2>2 DEF Post, PostError
  <1>2. PollTypeOK'
    BY <1>1 DEF PollTypeOK, Post, PostError, Done, Statuses, CliStates, Exits
  <1>3. ReadInv'
    BY <1>1 DEF ReadInv, PollTypeOK, Post, PostError, Terminal
  <1>4. CliInv'
    <2>1. CASE Post(e)
      <3>1. ended[e] = "none"
        BY <2>1 DEF Post, CliInv
      <3>2. QED
        BY <2>1, <3>1 DEF CliInv, PollTypeOK, Post, Done
    <2>2. CASE PostError(e)
      BY <2>2 DEF CliInv, PollTypeOK, PostError, Done
    <2>3. QED
      BY <2>1, <2>2
  <1>5. QED
    BY <1>1, <1>2, <1>3, <1>4

\* Reading, answering and giving up leave the rows alone.
LEMMA PollStep ==
  ASSUME PollInv, NEW e \in Execs, ReadRow(e) \/ Answer(e) \/ GiveUp(e)
  PROVE  PollInv'
  <1> USE DEF PollInv
  <1>1. UNCHANGED <<status, output, ran>>
    BY DEF ReadRow, Answer, GiveUp, absVars
  <1>2. PollTypeOK'
    <2> USE <1>1 DEF PollTypeOK, Statuses, CliStates, Exits
    <2>1. CASE ReadRow(e)  BY <2>1 DEF ReadRow
    <2>2. CASE Answer(e)   BY <2>2 DEF Answer
    <2>3. CASE GiveUp(e)   BY <2>3 DEF GiveUp, Done
    <2>4. QED
      BY <2>1, <2>2, <2>3
  <1>3. RowInv'
    BY <1>1 DEF RowInv
  <1>4. ReadInv'
    BY <1>1 DEF ReadInv, PollTypeOK, ReadRow, Answer, GiveUp, Terminal
  <1>5. CliInv'
    <2>1. CASE ReadRow(e)
      BY <2>1 DEF CliInv, PollTypeOK, ReadRow
    <2>2. CASE Answer(e)
      \* The output is looked up after the row: a row seen succeeded has one.
      <3>1. seen[e] = "succeeded" => output[e]
        BY DEF ReadInv, RowInv, Terminal
      <3>2. ended[e] = "none"
        BY <2>2 DEF Answer, CliInv
      <3>3. QED
        BY <2>2, <3>1, <3>2 DEF CliInv, PollTypeOK, Answer, Finished
    <2>3. CASE GiveUp(e)
      BY <2>3 DEF CliInv, PollTypeOK, GiveUp, Done
    <2>4. QED
      BY <2>1, <2>2, <2>3
  <1>6. QED
    BY <1>2, <1>3, <1>4, <1>5

\* What the command was told is terminal, and the output of a succeeded execution
\* is there.
LEMMA FetchStep ==
  ASSUME PollInv, NEW e \in Execs, Fetch(e)
  PROVE  PollInv'
  <1> USE DEF PollInv
  <1>1. PICK how \in FetchOutcomes(e) : Done(e, how)
    BY DEF Fetch
  <1>2. told[e] \in Terminal /\ (told[e] = "succeeded" => output[e])
    BY DEF Fetch, CliInv, ReadInv, RowInv
  <1>3. \/ told[e] = "failed" /\ how = "failed"
        \/ told[e] = "succeeded" /\ how \in {"ok", "error"}
    BY <1>1, <1>2 DEF FetchOutcomes, Terminal
  <1>4. PollTypeOK' /\ RowInv' /\ ReadInv'
    BY <1>1, <1>3 DEF Fetch, Done, absVars, PollTypeOK, RowInv, ReadInv, CliStates, Exits
  <1>5. CliInv'
    BY <1>1, <1>3 DEF Fetch, Done, CliInv, PollTypeOK
  <1>6. QED
    BY <1>4, <1>5

\* The workers go on.
LEMMA StoreStepInv ==
  ASSUME PollInv, NEW e \in Execs, StoreStep(e), UNCHANGED cliVars
  PROVE  PollInv'
  BY RowsMoveForward DEF PollInv, PollTypeOK, ReadInv, CliInv, cliVars

-----------------------------------------------------------------------------
\* The strengthening is an invariant.
THEOREM ClientInvariant == PollSpec => []PollInv
  <1>1. PollInv /\ [PollNext]_pollVars => PollInv'
    <2> SUFFICES ASSUME PollInv, [PollNext]_pollVars PROVE PollInv'
      OBVIOUS
    <2>1. CASE UNCHANGED pollVars
      BY <2>1 DEF pollVars, absVars, cliVars, PollInv, PollTypeOK, RowInv, ReadInv, CliInv
    <2>2. CASE PollNext
      BY <2>2, PostStep, PollStep, FetchStep, StoreStepInv DEF PollNext
    <2>3. QED
      BY <2>1, <2>2
  <1>2. QED
    BY <1>1, PollInitInv, PTL DEF PollSpec

\* A finished command has told the truth, for good: `rta run` exits with success only
\* for an execution whose row is and stays succeeded, and with failure only for one
\* that failed.
THEOREM ExitIsTrue == PollSpec => []ExitMatchesRow
  <1>1. PollInv => ExitMatchesRow
    BY DEF PollInv, CliInv, ReadInv, ExitMatchesRow, Terminal
  <1>2. QED
    BY <1>1, ClientInvariant, PTL

\* No caller who is told "succeeded" is refused the output, although GetExecution
\* reads row and output in two queries.
THEOREM OutputIsThere == PollSpec => []SucceededHasOutput
  <1>1. PollInv => SucceededHasOutput
    BY DEF PollInv, CliInv, SucceededHasOutput
  <1>2. QED
    BY <1>1, ClientInvariant, PTL

\* The commands and the handlers they call do with a row what Executions allows and no more,
\* so that ClientPolling and the queue, which implements it too, agree on the rows.
THEOREM CallersKeepToExecutions == PollSpec => AbsSpec
  <1>1. PollInit => AbsInit
    BY DEF PollInit
  <1>2. [PollNext]_pollVars => [AbsNext]_absVars
    <2> SUFFICES ASSUME [PollNext]_pollVars PROVE AbsNext \/ UNCHANGED absVars
      OBVIOUS
    <2>1. CASE UNCHANGED pollVars
      BY <2>1 DEF pollVars, absVars
    <2>2. ASSUME NEW e \in Execs,
                 \/ Post(e) \/ PostError(e) \/ ReadRow(e) \/ Answer(e) \/ GiveUp(e) \/ Fetch(e)
                 \/ StoreStep(e)
          PROVE  Submit(e) \/ Claim(e) \/ Start(e) \/ Complete(e) \/ UNCHANGED absVars
      BY <2>2 DEF Post, PostError, ReadRow, Answer, GiveUp, Fetch, StoreStep, absVars
    <2> QED
      BY <2>1, <2>2 DEF PollNext, AbsNext
  <1> QED
    BY <1>1, <1>2, PTL DEF PollSpec, AbsSpec
=============================================================================
