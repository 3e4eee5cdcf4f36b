SPECIFICATION Spec
CONSTANTS
  MaxProcesos = 2
  GradoMaxMultiprog = 2
  Programas <- ProgramasSalida
  Recursos = {"RA", "RB"}
  Instancias <- Turno
  Archivos = {"ARCHIVO"}
  Respuestas = {"SEGMENTO_CREADO"}
  RespuestasTrasCompactar = {"SEGMENTO_CREADO"}
INVARIANTS
  EsperaJustificada
\* After the last console's process has finished the kernel waits for ever.
CHECK_DEADLOCK FALSE
