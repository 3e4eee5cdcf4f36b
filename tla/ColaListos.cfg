\* Three processes; a thread and the scheduler itself make them ready.
CONSTANTS
  Pids = {1, 2, 3}
  Hilos = {4}
  MaxRafaga = 1
  estimacion_inicial = 2
  MaxEstimacion = 2
  MaxEspera = 5
SPECIFICATION FairSpec
INVARIANTS TypeOK TemporizadorATiempo EsperaAcotada
PROPERTIES DespachoPorRatio ListoEjecuta
CHECK_DEADLOCK FALSE
