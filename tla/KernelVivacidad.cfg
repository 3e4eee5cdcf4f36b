SPECIFICATION FairSpec
CONSTANTS
  MaxProcesos = 3
  GradoMaxMultiprog = 2
  Programas <- ProgramasVivacidad
  Recursos = {"DISCO", "IMPRESORA"}
  Instancias <- UnoDeCada
  Archivos = {"ARCHIVO"}
  Respuestas = {"SEGMENTO_CREADO"}
  RespuestasTrasCompactar = {"SEGMENTO_CREADO"}
INVARIANTS
  NoSeCae
PROPERTIES
  TodosTerminan
  ListoEjecuta
  CicloSpec
\* After the last console's process has finished the kernel waits for ever.
CHECK_DEADLOCK FALSE
