SPECIFICATION Spec
CONSTANTS
  MaxProcesos = 2
  GradoMaxMultiprog = 2
  Programas <- ProgramasTurno
  Recursos = {"RA", "RB"}
  Instancias <- Turno
  Archivos = {"ARCHIVO"}
  Respuestas = {"SEGMENTO_CREADO"}
  RespuestasTrasCompactar = {"SEGMENTO_CREADO"}
PROPERTIES
  SignalLiberaUna
\* After the last console's process has finished the kernel waits for ever.
CHECK_DEADLOCK FALSE
