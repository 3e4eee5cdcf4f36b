SPECIFICATION Spec
CONSTANTS
  MaxProcesos = 3
  GradoMaxMultiprog = 2
  Programas <- ProgramasSeguridad
  Recursos = {"DISCO"}
  Instancias <- UnDisco
  Archivos = {"ARCHIVO"}
  Respuestas = {"SEGMENTO_CREADO", "OUT_OF_MEMORY", "COMPACTAR"}
  RespuestasTrasCompactar = {"SEGMENTO_CREADO", "OUT_OF_MEMORY"}
INVARIANTS
  TypeOK
  ListosContados
  NuevosContados
  GradoRespetado
  SemFSExclusiva
  UnicoLugar
  DuenioUnico
  RecursosConservados
  EsperaJustificada
\* After the last console's process has finished the kernel waits for ever.
CHECK_DEADLOCK FALSE
