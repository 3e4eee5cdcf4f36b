------------------------------ MODULE Disciplina ------------------------------
(***************************************************************************)
(* What the handlers of Kernel take for granted about an instruction list: *)
(* that it signals what it waited for, uses and closes what it opened, and *)
(* ends with nothing in its hands. Nothing in the code checks it.          *)
(***************************************************************************)
EXTENDS Integers, Sequences, FiniteSets

\* How many instructions op of x come before the n-th of prog.
Antes(prog, op, x, n) ==
  Cardinality({i \in DOMAIN prog : i < n /\ prog[i].op = op /\ prog[i].arg = x})

\* The instructions a process may end at. CREATE_SEGMENT is one of them if memory
\* may answer OUT_OF_MEMORY.
PuedeTerminar(ins, recursos, respuestas) ==
  \/ ins.op \in {"EXIT", "SEG_FAULT"}
  \/ ins.op \in {"WAIT", "SIGNAL"} /\ ins.arg \notin recursos
  \/ ins.op = "CREATE_SEGMENT" /\ "OUT_OF_MEMORY" \in respuestas

\* A resource is signalled by a process that holds an instance of it...
SueltaLoQueTiene(progs, recursos) ==
  \A prog \in progs : \A i \in DOMAIN prog : \A r \in recursos :
    prog[i].op = "SIGNAL" /\ prog[i].arg = r
      => Antes(prog, "SIGNAL", r, i) < Antes(prog, "WAIT", r, i)

\* ... and a process ends with none.
DevuelveTodo(progs, recursos, respuestas) ==
  \A prog \in progs : \A i \in DOMAIN prog : \A r \in recursos :
    PuedeTerminar(prog[i], recursos, respuestas)
      => Antes(prog, "SIGNAL", r, i) = Antes(prog, "WAIT", r, i)

\* A file is read, written and closed by a process that has it open, and opened
\* by one that has not...
UsaLoQueAbre(progs, archivos) ==
  \A prog \in progs : \A i \in DOMAIN prog : \A f \in archivos :
    prog[i].arg = f =>
      /\ prog[i].op \in {"F_CLOSE", "F_READ", "F_WRITE"}
           => Antes(prog, "F_CLOSE", f, i) < Antes(prog, "F_OPEN", f, i)
      /\ prog[i].op = "F_OPEN"
           => Antes(prog, "F_CLOSE", f, i) = Antes(prog, "F_OPEN", f, i)

\* ... and a process ends with all of them closed.
CierraTodo(progs, recursos, archivos, respuestas) ==
  \A prog \in progs : \A i \in DOMAIN prog : \A f \in archivos :
    PuedeTerminar(prog[i], recursos, respuestas)
      => Antes(prog, "F_CLOSE", f, i) = Antes(prog, "F_OPEN", f, i)
=============================================================================
