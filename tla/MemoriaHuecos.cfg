\* As MemoriaParticion, with the reading of list_remove(l, -1) that suits the code best.
CONSTANTS
  tam_memoria = 6
  tam_segmento_0 = 1
  cant_segmentos = 4
  algoritmo_asignacion = "BEST"
  Pids = {1, 2}
  Tamanios <- TamaniosChicos
  MaxSegmentos = 4
  QuitarMenosUno = {"cabeza"}
SPECIFICATION Spec
INVARIANT Particion
CHECK_DEADLOCK FALSE
