------------------------------ MODULE KernelMC ------------------------------
(***************************************************************************)
(* Instances of Kernel for TLC. The programs are those of                  *)
(* src/consola/config/*.pseudo reduced to the instructions that reach the  *)
(* kernel; the names say which file each one is cut from.                  *)
(***************************************************************************)
EXTENDS Kernel, Disciplina

I(op, arg) == [op |-> op, arg |-> arg]
Salir == I("EXIT", "-")

-----------------------------------------------------------------------------
(* consola.pseudo, cut in two. *)

Recurso == <<I("WAIT", "DISCO"), I("I/O", "-"), I("SIGNAL", "DISCO"), Salir>>

Archivo == <<I("F_OPEN", "ARCHIVO"), I("YIELD", "-"), I("F_TRUNCATE", "ARCHIVO"),
             I("F_SEEK", "ARCHIVO"), I("F_WRITE", "ARCHIVO"), I("F_CLOSE", "ARCHIVO"),
             Salir>>

\* COMPACTACION and ERROR_4: segments, without files.
Segmentos == <<I("CREATE_SEGMENT", "1"), I("DELETE_SEGMENT", "1"), Salir>>

\* FS_3: a file opened, read and closed.
Lectura == <<I("F_OPEN", "ARCHIVO"), I("F_READ", "ARCHIVO"), I("F_CLOSE", "ARCHIVO"),
             Salir>>

-----------------------------------------------------------------------------
(* ERROR_1 and ERROR_2 (invalid resource), ERROR_3 (segmentation fault). *)

ErrorWait   == <<I("WAIT", "DISCO"), I("WAIT", "LA_TERCERA_DE_FRANCIA"), Salir>>
ErrorSignal == <<I("SIGNAL", "EL_CUARTO_DE_FRANCIA"), Salir>>
ErrorSeg    == <<I("SEG_FAULT", "-")>>

-----------------------------------------------------------------------------
(* DEADLOCK_1 and DEADLOCK_2 (without its EXIT, to be followed by more). *)

Deadlock1 == <<I("WAIT", "DISCO"), I("WAIT", "IMPRESORA"),
               I("SIGNAL", "IMPRESORA"), I("SIGNAL", "DISCO"), Salir>>
Deadlock2 == <<I("WAIT", "IMPRESORA"), I("WAIT", "DISCO"),
               I("SIGNAL", "DISCO"), I("SIGNAL", "IMPRESORA")>>

-----------------------------------------------------------------------------
(* MEMORIA_1 and MEMORIA_2 pass a turn with RA and RB; FS_1 takes RA, passes *)
(* the turn to RB and ends.                                                  *)

Memoria1 == <<I("WAIT", "RA"), I("SIGNAL", "RB"), I("WAIT", "RA"), Salir>>
Memoria2 == <<I("WAIT", "RB"), I("SIGNAL", "RA"), I("WAIT", "RB"), Salir>>
FS1 == <<I("WAIT", "RA"), I("SIGNAL", "RB"), Salir>>

-----------------------------------------------------------------------------
(* The sets the runs use. *)

UnDisco == [r \in {"DISCO"} |-> 1]
UnoDeCada == [r \in {"DISCO", "IMPRESORA"} |-> 1]

\* RECURSOS=[RA,RB] INSTANCIAS_RECURSOS=[1,0], kernel.config.
Turno == [r \in {"RA", "RB"} |-> IF r = "RA" THEN 1 ELSE 0]

ProgramasTurno == {Memoria1, Memoria2}
ProgramasSalida == {FS1}
ProgramasSeguridad == {Recurso, Archivo, Segmentos, ErrorSignal}
ProgramasVivacidad == {Deadlock1, Deadlock2 \o Lectura}

-----------------------------------------------------------------------------
(* The theorems of KernelProgramas apply to the programs of the runs that  *)
(* pass, and not to those of the two that do not.                          *)

TodasLasRespuestas == Respuestas \cup RespuestasTrasCompactar

ASSUME SonDisciplinados ==
  Programas \in {ProgramasSeguridad, ProgramasVivacidad} =>
    /\ SueltaLoQueTiene(Programas, Recursos)
    /\ DevuelveTodo(Programas, Recursos, TodasLasRespuestas)
    /\ UsaLoQueAbre(Programas, Archivos)
    /\ CierraTodo(Programas, Recursos, Archivos, TodasLasRespuestas)

ASSUME NoLoSon ==
  /\ Programas = ProgramasTurno => ~SueltaLoQueTiene(Programas, Recursos)
  /\ Programas = ProgramasSalida => ~DevuelveTodo(Programas, Recursos, TodasLasRespuestas)
=============================================================================
